---- MODULE Spec2Model ----
(***************************************************************************)
(* Feed core of the muzeeng social platform (feed-service): the feed read  *)
(* path (cursor decoding, cache lookup, fallback build, asynchronous cache *)
(* write-back, page assembly) and the fan-out write path (follower         *)
(* lookup, bulk insert of feed-index rows, asynchronous cache              *)
(* invalidation).                                                          *)
(*                                                                         *)
(* Time is counted in whole days: a post's created_at is a day number and  *)
(* CreatedAt.Unix() is that day number times 86400.  Text is a sequence of *)
(* byte codes; base64 text is a sequence of alphabet indices (0..63), with *)
(* 64 for the padding character '=', 65 for a character outside the        *)
(* alphabet and 66 for a newline.                                          *)
(***************************************************************************)
EXTENDS Integers, Sequences, FiniteSets, TLC

\* ------------------------------------------------------------------ bounds
MaxPosts == 3
MaxTime == 1
MaxReads == 1
MaxFanOuts == 2
MaxInserts == 1
MaxPending == 1
MaxOffset == 3
MaxCleanups == 2
MaxCursorOffset == 40
MaxRefreshes == 2
MaxOps == 5
MaxTicks == 3

\* ---------------------------------------------------------------- universe
\* an author with more followers than invalidateFollowersCaches runs at a time
Star == "D"
Crowd == {"F01", "F02", "F03", "F04", "F05", "F06", "F07", "F08", "F09", "F10",
          "F11"}
Friends == {"A", "B", "C"}
Users == Friends \cup {Star} \cup Crowd
PostIds == 1..MaxPosts
Nil == <<>>

\* ------------------------------------------------------------ text helpers
Pad == 64
BadChar == 65
NewLine == 66

Minus == 45
Plus == 43
Space == 32
Underscore == 95
LineFeed == 10
LetterX == 120
Zero == 48

IsDigit(b) == b >= Zero /\ b <= Zero + 9

RECURSIVE FormatNat(_)
FormatNat(n) ==
    IF n < 10 THEN <<Zero + n>> ELSE FormatNat(n \div 10) \o <<Zero + (n % 10)>>

\* fmt.Sprintf("%d", n)
SprintfD(n) == IF n < 0 THEN <<Minus>> \o FormatNat(0 - n) ELSE FormatNat(n)

RECURSIVE EncodeToString(_)
\* base64.StdEncoding.EncodeToString: three bytes to four sextets, padded
EncodeToString(bytes) ==
    IF Len(bytes) = 0 THEN <<>>
    ELSE IF Len(bytes) = 1 THEN
        <<bytes[1] \div 4, (bytes[1] % 4) * 16, Pad, Pad>>
    ELSE IF Len(bytes) = 2 THEN
        <<bytes[1] \div 4, (bytes[1] % 4) * 16 + bytes[2] \div 16,
          (bytes[2] % 16) * 4, Pad>>
    ELSE
        <<bytes[1] \div 4, (bytes[1] % 4) * 16 + bytes[2] \div 16,
          (bytes[2] % 16) * 4 + bytes[3] \div 64, bytes[3] % 64>>
        \o EncodeToString(SubSeq(bytes, 4, Len(bytes)))

StripNewLines(s) == SelectSeq(s, LAMBDA c : c # NewLine)

IsSextet(c) == c >= 0 /\ c <= 63

\* the bytes of one quantum of four characters; last tells the final quantum
QuantumOk(q, last) ==
    /\ IsSextet(q[1]) /\ IsSextet(q[2])
    /\ \/ IsSextet(q[3]) /\ IsSextet(q[4])
       \/ last /\ IsSextet(q[3]) /\ q[4] = Pad
       \/ last /\ q[3] = Pad /\ q[4] = Pad

QuantumBytes(q) ==
    LET b1 == q[1] * 4 + q[2] \div 16
        b2 == (q[2] % 16) * 16 + q[3] \div 4
        b3 == (q[3] % 4) * 64 + q[4]
    IN  IF q[3] = Pad THEN <<b1>>
        ELSE IF q[4] = Pad THEN <<b1, b2>>
        ELSE <<b1, b2, b3>>

RECURSIVE DecodeQuanta(_)
DecodeQuanta(t) ==
    IF Len(t) = 0 THEN [err |-> FALSE, bytes |-> <<>>]
    ELSE LET q == SubSeq(t, 1, 4)
             rest == SubSeq(t, 5, Len(t))
         IN  IF ~QuantumOk(q, Len(rest) = 0) THEN [err |-> TRUE, bytes |-> <<>>]
             ELSE LET r == DecodeQuanta(rest)
                  IN  IF r.err THEN r
                      ELSE [err |-> FALSE, bytes |-> QuantumBytes(q) \o r.bytes]

\* base64.StdEncoding.DecodeString: newlines are skipped, the rest must be
\* whole padded quanta of alphabet characters
DecodeString(s) ==
    LET t == StripNewLines(s)
    IN  IF Len(t) % 4 # 0 THEN [err |-> TRUE, bytes |-> <<>>]
        ELSE DecodeQuanta(t)

RECURSIVE SkipSpace(_)
SkipSpace(t) ==
    IF Len(t) > 0 /\ t[1] = Space THEN SkipSpace(Tail(t)) ELSE t

RECURSIVE NumberToken(_)
\* scanNumber: the longest prefix of digits and underscores
NumberToken(t) ==
    IF Len(t) > 0 /\ (IsDigit(t[1]) \/ t[1] = Underscore)
    THEN <<t[1]>> \o NumberToken(Tail(t))
    ELSE <<>>

RECURSIVE ParseDigits(_, _)
ParseDigits(tok, acc) ==
    IF Len(tok) = 0 THEN acc
    ELSE ParseDigits(Tail(tok), acc * 10 + (tok[1] - Zero))

\* fmt.Sscanf(text, "%d", &offset): leading spaces are skipped, one sign is
\* accepted, then digits; whatever follows the number is left unread
SscanfD(text) ==
    LET t == SkipSpace(text)
        neg == Len(t) > 0 /\ t[1] = Minus
        signed == Len(t) > 0 /\ (t[1] = Minus \/ t[1] = Plus)
        u == IF signed THEN Tail(t) ELSE t
        tok == NumberToken(u)
    IN  IF Len(t) = 0 \/ t[1] = LineFeed THEN [err |-> TRUE, n |-> 0]
        ELSE IF Len(tok) = 0 THEN [err |-> TRUE, n |-> 0]
        ELSE IF \E i \in 1..Len(tok) : tok[i] = Underscore
             THEN [err |-> TRUE, n |-> 0]
        ELSE [err |-> FALSE,
              n |-> IF neg THEN 0 - ParseDigits(tok, 0) ELSE ParseDigits(tok, 0)]

encodeCursor(offset) == EncodeToString(SprintfD(offset))

decodeCursor(cursor) ==
    LET d == DecodeString(cursor)
    IN  IF d.err THEN [err |-> TRUE, offset |-> 0]
        ELSE LET s == SscanfD(d.bytes)
             IN  [err |-> s.err, offset |-> s.n]

\* ------------------------------------------------- post-service cursor
Colon == 58
LetterA == 97

\* what fmt.Sscanf's %d leaves unread
AfterNumber(text) ==
    LET t == SkipSpace(text)
        signed == Len(t) > 0 /\ (t[1] = Minus \/ t[1] = Plus)
        u == IF signed THEN Tail(t) ELSE t
    IN  SubSeq(u, Len(NumberToken(u)) + 1, Len(u))

RECURSIVE WordToken(_)
\* %s: the characters up to the next space or line end
WordToken(t) ==
    IF Len(t) > 0 /\ t[1] # Space /\ t[1] # LineFeed
    THEN <<t[1]>> \o WordToken(Tail(t))
    ELSE <<>>

\* fmt.Sscanf(text, "%d:%s", &timestamp, &idStr)
SscanfDColonS(text) ==
    LET d == SscanfD(text)
        rest == AfterNumber(text)
        word == IF Len(rest) > 0 THEN WordToken(SkipSpace(Tail(rest))) ELSE <<>>
    IN  IF d.err \/ Len(rest) = 0 \/ rest[1] # Colon \/ Len(word) = 0
        THEN [err |-> TRUE, n |-> 0, s |-> <<>>]
        ELSE [err |-> FALSE, n |-> d.n, s |-> word]

\* uuid.UUID.String and uuid.Parse; the text of a uuid is shortened here to a
\* hex letter and a digit
UuidString(id) == <<LetterA, Zero + id>>

UuidParse(text) ==
    IF Len(text) = 2 /\ text[1] = LetterA /\ IsDigit(text[2])
    THEN [err |-> FALSE, id |-> text[2] - Zero]
    ELSE [err |-> TRUE, id |-> 0]

\* time.Time as seconds and nanoseconds; Time.Unix and time.Unix(sec, 0)
TimeUnix(t) == t.sec

UnixTime(sec) == [sec |-> sec, nsec |-> 0]

\* post-service encodeCursor(timestamp, id)
PostEncodeCursor(timestamp, id) ==
    EncodeToString(SprintfD(TimeUnix(timestamp)) \o <<Colon>> \o UuidString(id))

\* post-service decodeCursor(cursor)
PostDecodeCursor(cursor) ==
    LET d == DecodeString(cursor)
        s == SscanfDColonS(d.bytes)
        u == UuidParse(s.s)
    IN  IF d.err \/ s.err \/ u.err
        THEN [err |-> TRUE, Timestamp |-> UnixTime(0), ID |-> 0]
        ELSE [err |-> FALSE, Timestamp |-> UnixTime(s.n), ID |-> u.id]

\* ------------------------------------------------------------ state
VARIABLES
    now,        \* the clock, in days
    posts,      \* feed_service_posts: post id -> row
    follows,    \* feed_service_follows: <<follower, followed>> -> deleted_at set?
    cache,      \* Redis: user -> sorted set "feed:<user>" (member -> score)
    reads,      \* GetFeed calls in flight: slot -> position and locals
    wbs,        \* write-back goroutines started by GetFeed and not yet run
    last,       \* the response the client received last
    feedIdx,    \* feed_service_cache: the feed-index rows
    fanouts,    \* FanOutPost calls: call -> position, locals, goroutines
    inserts,    \* the number of InsertFeedItem calls made
    cleanups,   \* the cleanup job: runs made, the last run's horizon and outcome
    calc,       \* a call of a pure function: its arguments and its result
    ttl,        \* Redis: user -> seconds the key "feed:<user>" has left (0: no key)
    origin,     \* user -> the post ids stored when the rows last cached were built
    refreshes,  \* RefreshUserFeed calls: call -> position and locals
    counters    \* post-service: the counts of a row of post_service_posts

fanVars == <<feedIdx, fanouts, inserts>>

jobVars == <<cleanups, calc>>

keyVars == <<ttl, origin>>

svcVars == <<refreshes, counters>>

sideVars == <<jobVars, keyVars, svcVars>>

vars == <<now, posts, follows, cache, reads, wbs, last, feedIdx, fanouts, inserts,
          cleanups, calc, ttl, origin, refreshes, counters>>

\* a pointer: Nil or a one-element sequence holding the value
Some(v) == <<v>>

\* ---------------------------------------------------------- program constants
SecondsPerDay == 86400
WindowDays == 30
DefaultLimit == 10
MaxLimit == 100
OneHour == 3600
RefreshLimit == 100

\* ---------------------------------------------------------- input domains
Authors == {"B"}
LikeCounts == {0, 99}
CommentCounts == {0}
FirstValues == {1, 2}
Readers == {"A"}
BadUserId == "not-a-uuid"
Garbage == 0
Members == PostIds \cup {Garbage}

\* ------------------------------------------------------------ sequences
Perms(S) ==
    {f \in [1..Cardinality(S) -> S] : \A i, j \in DOMAIN f : i # j => f[i] # f[j]}

\* the orders of S that never put y before x when Strict(x, y) (x sorts first)
OrderedBy(S, Strict(_, _)) ==
    {f \in Perms(S) : \A i, j \in DOMAIN f : i < j => ~Strict(f[j], f[i])}

Take(s, n) == IF n <= 0 THEN <<>> ELSE SubSeq(s, 1, IF n < Len(s) THEN n ELSE Len(s))

Range(s) == {s[i] : i \in DOMAIN s}

\* ------------------------------------------------------------ ranking
\* EXP(-age / 86400.0) * 0.5 in millionths, age in whole days
RecencyMicro(ageDays) ==
    LET table == <<500000, 183940, 67668, 24894, 9158, 3369, 1239, 456, 168,
                   62, 23, 8, 3, 1>>
        ahead == <<1359141, 3694528>>
    IN  IF ageDays < 0 THEN ahead[0 - ageDays]
        ELSE IF ageDays + 1 <= Len(table) THEN table[ageDays + 1] ELSE 0

\* LOG(n) (base 10) in millionths
Log10Micro(n) ==
    CASE n = 1 -> 0
      [] n = 2 -> 301030
      [] n = 3 -> 477121
      [] n = 10 -> 1000000
      [] n = 100 -> 2000000

Greatest(a, b) == IF a > b THEN a ELSE b

\* the ranking expression of BuildFeedForUser, in millionths, on day `day`
feed_score(row, day) ==
    RecencyMicro(day - row.created_at)
    + (Log10Micro(Greatest(row.likes_count + 1, 1)) * 3) \div 10
    + (Log10Micro(Greatest(row.comments_count + 1, 1)) * 2) \div 10

\* FeedRankingService.CalculateFeedScore in millionths, on day `day`: the age
\* in hours, 1 / (1 + age * 0.1) weighted 0.6, the counts weighted 0.6 and 0.4,
\* their sum weighted 0.4; a division by zero gives +Inf
HoursPerDay == 24

CalculateFeedScore(post, day) ==
    LET age == (day - post.created_at) * HoursPerDay
        engagement == post.likes_count * 240000 + post.comments_count * 160000
    IN  IF 10 + age = 0 THEN 6000000 * 1000000
        ELSE (6000000 \div (10 + age)) + engagement

\* following_users: followed_id of the user's edges with deleted_at IS NULL
FollowingEver(user) == {e[2] : e \in {d \in DOMAIN follows : d[1] = user}}

Following(user) ==
    {e[2] : e \in {d \in DOMAIN follows : d[1] = user /\ ~follows[d]}}

\* the candidate set of BuildFeedForUser over a post store on a day
Candidates(user, store, day) ==
    {p \in DOMAIN store :
        /\ store[p].user_id \in Following(user)
        /\ store[p].created_at > day - WindowDays}

\* ORDER BY feed_score DESC, created_at DESC
RankedBefore(store, day, p, q) ==
    \/ feed_score(store[p], day) > feed_score(store[q], day)
    \/ /\ feed_score(store[p], day) = feed_score(store[q], day)
       /\ store[p].created_at > store[q].created_at

\* the full ranked feeds of a user; rows that tie come in any order
RankedFeeds(user, store, day) ==
    OrderedBy(Candidates(user, store, day),
              LAMBDA p, q : RankedBefore(store, day, p, q))

\* a models.Post scanned from a row of feed_service_posts
PostRow(store, p) ==
    [id |-> p, user_id |-> store[p].user_id, created_at |-> store[p].created_at,
     likes_count |-> store[p].likes_count,
     comments_count |-> store[p].comments_count]

Rows(store, ids) == [i \in DOMAIN ids |-> PostRow(store, ids[i])]

Ids(rows) == [i \in DOMAIN rows |-> rows[i].id]

\* the results the query of BuildFeedForUser can return: the first limit rows
BuildQuery(user, limit, store, day) ==
    {Rows(store, Take(f, limit)) : f \in RankedFeeds(user, store, day)}

BuildFeedForUser(user, limit) == BuildQuery(user, limit, posts, now)

\* ------------------------------------------------------------ the cache
Unix(day) == day * SecondsPerDay

\* sorted-set order, highest first: by score, then by member
ZBefore(zset, m, n) ==
    \/ zset[m] > zset[n]
    \/ zset[m] = zset[n] /\ m > n

ZRevAll(zset) ==
    CHOOSE f \in Perms(DOMAIN zset) :
        \A i, j \in DOMAIN f : i < j => ZBefore(zset, f[i], f[j])

\* ZREVRANGE key start stop, with Redis's index normalisation
ZRevRangeFromTop(zset, start, stop) ==
    LET n == Cardinality(DOMAIN zset)
        e1 == IF stop - start >= n THEN n - 1 ELSE stop - start
    IN  IF n = 0 THEN <<>> ELSE SubSeq(ZRevAll(zset), 1, e1 + 1)

ZRevRange(zset, start, stop) ==
    LET n == Cardinality(DOMAIN zset)
        s0 == IF start < 0 THEN start + n ELSE start
        e0 == IF stop < 0 THEN stop + n ELSE stop
        s1 == IF s0 < 0 THEN 0 ELSE s0
        e1 == IF e0 >= n THEN n - 1 ELSE e0
    IN  IF s1 > e1 \/ s1 >= n THEN <<>> ELSE SubSeq(ZRevAll(zset), s1 + 1, e1 + 1)

\* uuid.Parse over the members read: unparsable members are skipped
ParsedIds(ids) == SelectSeq(ids, LAMBDA m : m # Garbage)

\* SELECT ... WHERE id IN (ids) ORDER BY created_at DESC
NewerThan(p, q) == posts[p].created_at > posts[q].created_at

\* the rows of the cached ids: SELECT ... FROM feed_service_posts WHERE id IN
\* (ids) ORDER BY created_at DESC
HydrateResultsUnchecked(uuids) ==
    {[i \in DOMAIN uuids |->
        [id |-> uuids[i], user_id |-> "B", created_at |-> 0, likes_count |-> 0,
         comments_count |-> 0]]}

HydrateResults(uuids) ==
    {Rows(posts, f) :
        f \in OrderedBy({p \in Range(uuids) : p \in DOMAIN posts}, NewerThan)}

\* the ZADD pipeline of CacheFeedItems: score = CreatedAt.Unix()
ZAddOnly(zset, built) ==
    [m \in {built[i].id : i \in DOMAIN built} |->
        Unix((CHOOSE b \in Range(built) : b.id = m).created_at)]

ZAddAll(zset, built) ==
    [m \in DOMAIN zset \cup {built[i].id : i \in DOMAIN built} |->
        IF \E i \in DOMAIN built : built[i].id = m
        THEN Unix((CHOOSE b \in Range(built) : b.id = m).created_at)
        ELSE zset[m]]

EmptyZSet == [m \in {} |-> 0]

\* ------------------------------------------------------------ page assembly
buildPostConnectionFromOne(rows, limit, offset) ==
    LET hasNextPage == Len(rows) > limit
        kept == IF hasNextPage THEN Take(rows, limit) ELSE rows
        cursors == [i \in DOMAIN kept |-> encodeCursor(offset + i)]
    IN  [Edges |-> [i \in DOMAIN kept |-> [Cursor |-> cursors[i], Node |-> kept[i]]],
         EndCursor |-> IF Len(kept) > 0 THEN Some(cursors[Len(kept)]) ELSE Nil,
         HasNextPage |-> hasNextPage,
         StartCursor |-> IF Len(kept) > 0 THEN Some(cursors[1]) ELSE Nil,
         HasPreviousPage |-> offset > 0,
         TotalCount |-> Len(kept)]

buildPostConnection(rows, limit, offset) ==
    LET hasNextPage == Len(rows) > limit
        kept == IF hasNextPage THEN Take(rows, limit) ELSE rows
        cursors == [i \in DOMAIN kept |-> encodeCursor(offset + (i - 1))]
    IN  [Edges |-> [i \in DOMAIN kept |-> [Cursor |-> cursors[i], Node |-> kept[i]]],
         EndCursor |-> IF Len(kept) > 0 THEN Some(cursors[Len(kept)]) ELSE Nil,
         HasNextPage |-> hasNextPage,
         StartCursor |-> IF Len(kept) > 0 THEN Some(cursors[1]) ELSE Nil,
         HasPreviousPage |-> offset > 0,
         TotalCount |-> Len(kept)]

\* ------------------------------------------------------------ clients
\* cursors a client may send that no page ever carried: "!!!!" and base64("x")
BadCursors ==
    {<<BadChar, BadChar, BadChar, BadChar>>, EncodeToString(<<LetterX>>)}

\* cursors of the form the service issues
IssuedCursors == {encodeCursor(k) : k \in 0..(MaxPosts - 1)}

NoPage == buildPostConnection(<<>>, 0, 0)

NoStore == [p \in {} |-> 0]

\* a read slot; zset, store, day and prev record what the call observed and the
\* response its client had in hand when it sent the request
IdleRead ==
    [pc |-> "idle", user |-> "", limit |-> 0, after |-> Nil, offset |-> 0,
     zset |-> EmptyZSet, ids |-> <<>>, cacheErr |-> "", path |-> "",
     rows |-> <<>>, err |-> "", code |-> "", page |-> NoPage,
     store |-> NoStore, day |-> 0, prev |-> Nil, isLiked |-> <<>>,
     likeErr |-> ""]

Done(r) == reads[r].pc = "done"

\* a FanOutPost call; inv holds the goroutines of invalidateFollowersCaches,
\* fault and conflict record what its bulk insert met
IdleFanOut ==
    [pc |-> "idle", postID |-> 0, authorID |-> "", followerIDs |-> {},
     err |-> "", fault |-> FALSE, conflict |-> FALSE,
     inv |-> [u \in Users |-> "none"]]

\* due is what waits in the job's ticker channel, ticks the ticks sent so far
NoCleanup ==
    [runs |-> 0, olderThan |-> 0, failed |-> FALSE, again |-> FALSE, due |-> 0,
     ticks |-> 0]

\* a RefreshUserFeed call; seen holds the ids of the posts stored when it built
IdleRefresh ==
    [pc |-> "idle", user |-> "", rows |-> <<>>, err |-> "", seen |-> {}]

\* a row of post_service_posts and the outcome of the last update of it
NewPostCounts ==
    [likes_count |-> 0, comments_count |-> 0, ops |-> 0, op |-> "", err |-> ""]

NoKeys == [u \in Users |-> 0]

NoOrigins == [u \in Users |-> Nil]

NoCalc == [fn |-> "none"]

\* the service after start-up: empty tables, empty cache, nothing in flight
Fresh ==
    /\ now = 0
    /\ posts = NoStore
    /\ follows = [e \in {<<"A", "B">>, <<"A", "C">>, <<"C", "B">>}
                           \cup {<<f, Star>> : f \in Crowd} |-> FALSE]
    /\ cache = [u \in Users |-> EmptyZSet]
    /\ reads = [r \in 1..MaxReads |-> IdleRead]
    /\ wbs = {}
    /\ last = Nil
    /\ feedIdx = {}
    /\ fanouts = [t \in 1..MaxFanOuts |-> IdleFanOut]
    /\ inserts = 0
    /\ cleanups = NoCleanup
    /\ ttl = NoKeys
    /\ origin = NoOrigins
    /\ refreshes = [t \in 1..MaxRefreshes |-> IdleRefresh]

Init == Fresh /\ calc = NoCalc /\ counters = NewPostCounts

\* ------------------------------------------------------------ environment
\* a day passes; every cached set (time-to-live one hour) has expired
Tick ==
    /\ now < MaxTime
    /\ now' = now + 1
    /\ cache' = [u \in Users |-> EmptyZSet]
    /\ ttl' = NoKeys /\ origin' = NoOrigins
    /\ UNCHANGED <<posts, follows, reads, wbs, last, fanVars, jobVars, svcVars>>

\* the time-to-live of a user's cached set runs out
Expire(u) ==
    /\ DOMAIN cache[u] # {}
    /\ cache' = [cache EXCEPT ![u] = EmptyZSet]
    /\ ttl' = [ttl EXCEPT ![u] = 0]
    /\ origin' = [origin EXCEPT ![u] = Nil]
    /\ UNCHANGED <<now, posts, follows, reads, wbs, last, fanVars, jobVars, svcVars>>

\* half an hour passes for a key that was just given its time-to-live
Age(u) ==
    /\ ttl[u] = OneHour
    /\ ttl' = [ttl EXCEPT ![u] = OneHour \div 2]
    /\ UNCHANGED <<now, posts, follows, cache, reads, wbs, last, fanVars, jobVars,
                   origin, svcVars>>

\* a member that is no post id appears in a user's cached set
CorruptMember(u) ==
    /\ Garbage \notin DOMAIN cache[u]
    /\ cache' = [cache EXCEPT ![u] =
                    [m \in DOMAIN cache[u] \cup {Garbage} |->
                        IF m = Garbage THEN Unix(now) ELSE cache[u][m]]]
    /\ ttl' = [ttl EXCEPT ![u] = IF @ = 0 THEN OneHour ELSE @]
    /\ UNCHANGED <<now, posts, follows, reads, wbs, last, fanVars, jobVars,
                   origin, svcVars>>

\* the post store receives a new post, created now
CreatePost(author, likes, comments) ==
    /\ Cardinality(DOMAIN posts) < MaxPosts
    /\ LET p == Cardinality(DOMAIN posts) + 1
       IN  posts' = [q \in DOMAIN posts \cup {p} |->
                        IF q = p
                        THEN [user_id |-> author, created_at |-> now,
                              likes_count |-> likes, comments_count |-> comments]
                        ELSE posts[q]]
    /\ UNCHANGED <<now, follows, cache, reads, wbs, last, fanVars, sideVars>>

\* ------------------------------------------------------------ feed read
ClampLimit(first) ==
    IF first <= 0 THEN DefaultLimit ELSE IF first > MaxLimit THEN MaxLimit ELSE first

\* the gRPC status the handler gives the error of feedRepository.GetFeed
GetFeedErrorCode(err) == "Internal"

\* uuid.Parse(req.UserId) returns an error: the text is no UUID
ParseFailsNever(userId) == FALSE

ParseFails(userId) == userId \notin Users

\* FeedHandler.GetFeed up to the call of the repository, and
\* feedRepository.GetFeed up to the cache lookup
HandlerGetFeed(r, userId, first, after) ==
    /\ reads[r].pc = "idle"
    /\ Cardinality(wbs) < MaxPending
    /\ LET limit == ClampLimit(first)
           hasCursor == after # Nil /\ after[1] # <<>>
           dec == IF hasCursor THEN decodeCursor(after[1])
                  ELSE [err |-> FALSE, offset |-> 0]
           begun == [IdleRead EXCEPT
                        !.user = userId, !.limit = limit, !.after = after,
                        !.prev = last]
       IN  /\ dec.offset <= MaxOffset
           /\ reads' = [reads EXCEPT ![r] =
                IF ParseFails(userId)
                THEN [begun EXCEPT !.pc = "done", !.err = "invalid user_id",
                                   !.code = "InvalidArgument"]
                ELSE IF dec.err
                THEN [begun EXCEPT !.pc = "done", !.err = "invalid cursor",
                                   !.code = GetFeedErrorCode("invalid cursor")]
                ELSE [begun EXCEPT !.pc = "cache", !.offset = dec.offset]]
    /\ UNCHANGED <<now, posts, follows, cache, wbs, last, fanVars, sideVars>>

\* GetFeed after a failed cache lookup: the error is dropped and the feed built
FallBackSurfaced(rd, failure) ==
    [rd EXCEPT !.pc = "done", !.cacheErr = failure, !.err = failure,
               !.code = "Internal"]

FallBack(rd, failure) == [rd EXCEPT !.pc = "build", !.cacheErr = failure]

\* the error of GetCachedFeed before it queries the post store ("" if none)
RangeFailure(redisFails, postIDs, uuids) ==
    IF redisFails THEN "failed to get cached feed"
    ELSE IF Len(postIDs) = 0 THEN "cache miss"
    ELSE IF Len(uuids) = 0 THEN "no valid post IDs in cache"
    ELSE ""

\* GetCachedFeed, first half: ZREVRANGE and the parsing of the members
GetCachedFeedRange(r, redisFails) ==
    /\ reads[r].pc = "cache"
    /\ LET rd == reads[r]
           postIDs == ZRevRange(cache[rd.user], rd.offset, rd.offset + (rd.limit + 1) - 1)
           uuids == ParsedIds(postIDs)
           failure == RangeFailure(redisFails, postIDs, uuids)
       IN  reads' = [reads EXCEPT ![r] =
              IF failure # "" THEN FallBack(rd, failure)
              ELSE [rd EXCEPT !.pc = "hydrate", !.ids = uuids,
                              !.zset = cache[rd.user]]]
    /\ UNCHANGED <<now, posts, follows, cache, wbs, last, fanVars, sideVars>>

\* what GetFeed returns once its rows are in hand
Respond(rd, rows, path) ==
    [rd EXCEPT !.pc = "done", !.path = path, !.rows = rows, !.code = "OK",
               !.page = buildPostConnection(rows, rd.limit, rd.offset),
               !.store = posts, !.day = now]

\* GetFeed's use of the cached rows: they are the page if the lookup gave no
\* error and at least one row
CacheHit(failed, rows) == ~failed /\ Len(rows) > 0

\* GetCachedFeed, second half: the rows of the cached ids; GetFeed returns the
\* cached page if there is at least one row
GetCachedFeedHydrate(r, dbFails) ==
    /\ reads[r].pc = "hydrate"
    /\ LET rd == reads[r]
       IN  \E rows \in IF dbFails THEN {<<>>} ELSE HydrateResults(rd.ids) :
              reads' = [reads EXCEPT ![r] =
                  IF CacheHit(dbFails, rows) THEN Respond(rd, rows, "cache")
                  ELSE FallBack(rd, IF dbFails THEN "failed to fetch cached posts"
                                    ELSE "no rows")]
    /\ UNCHANGED <<now, posts, follows, cache, wbs, last, fanVars, sideVars>>

\* what GetFeed returns when BuildFeedForUser failed: no page, the error
BuildFailedSwallowed(rd) ==
    [rd EXCEPT !.pc = "done", !.err = "failed to build feed", !.code = "OK",
               !.store = posts, !.day = now]

BuildFailed(rd) ==
    [rd EXCEPT !.pc = "done", !.err = "failed to build feed",
               !.code = GetFeedErrorCode("failed to build feed"),
               !.store = posts, !.day = now]

\* the context the write-back goroutine of request r runs under
WriteBackContextOfRequest(r) == [kind |-> "request", slot |-> r]

WriteBackContext(r) == [kind |-> "background", slot |-> 0]

\* the write-back goroutine GetFeed starts for request r with the built rows;
\* scope tells whether the request is open, has returned or was cancelled
WriteBack(r, user, rows) ==
    [user |-> user, rows |-> rows, ctx |-> WriteBackContext(r), req |-> r,
     scope |-> "open", seen |-> DOMAIN posts]

\* the fallback of GetFeed: BuildFeedForUser, the start of the write-back
\* goroutine, and the page
GetFeedBuild(r, dbFails) ==
    /\ reads[r].pc = "build"
    /\ LET rd == reads[r]
       IN  IF dbFails
           THEN /\ reads' = [reads EXCEPT ![r] = BuildFailed(rd)]
                /\ UNCHANGED wbs
           ELSE \E rows \in BuildFeedForUser(rd.user, rd.limit + 1) :
                /\ reads' = [reads EXCEPT ![r] = Respond(rd, rows, "build")]
                /\ wbs' = wbs \cup {WriteBack(r, rd.user, rows)}
    /\ UNCHANGED <<now, posts, follows, cache, last, fanVars, sideVars>>

\* the context of a write-back is done: it is the context of a request that
\* has ended
ContextDone(w) == w.ctx.kind = "request" /\ w.scope # "open"

\* CacheFeedItems returns without touching Redis for no rows; its pipeline
\* stores the rows unless Redis fails
Stores(rows, failed) == Len(rows) > 0 /\ ~failed

\* the pipeline of CacheFeedItems: the ZADDs, then EXPIRE key 1h
PipelineKeepsTtl(user, rows, seen, failed) ==
    /\ cache' = IF Stores(rows, failed)
                THEN [cache EXCEPT ![user] = ZAddAll(@, rows)] ELSE cache
    /\ ttl' = ttl
    /\ origin' = IF Stores(rows, failed)
                 THEN [origin EXCEPT ![user] = Some(seen)] ELSE origin

Pipeline(user, rows, seen, failed) ==
    /\ cache' = IF Stores(rows, failed)
                THEN [cache EXCEPT ![user] = ZAddAll(@, rows)] ELSE cache
    /\ ttl' = IF Stores(rows, failed)
              THEN [ttl EXCEPT ![user] = OneHour] ELSE ttl
    /\ origin' = IF Stores(rows, failed)
                 THEN [origin EXCEPT ![user] = Some(seen)] ELSE origin

\* the write-back goroutine: CacheFeedItems with the rows that were built
CacheFeedItems(w, redisFails) ==
    /\ w \in wbs
    /\ wbs' = wbs \ {w}
    /\ Pipeline(w.user, w.rows, w.seen, redisFails \/ ContextDone(w))
    /\ UNCHANGED <<now, posts, follows, reads, last, fanVars, jobVars, svcVars>>

\* the context of request r ends: by the handler's return or by cancellation
EndScope(pending, r, how) ==
    {IF w.req = r /\ w.scope = "open" THEN [w EXCEPT !.scope = how] ELSE w :
        w \in pending}

\* GetPostsWithLikeStatus: no query for no ids; otherwise a flag for every id
\* asked for, true for those the likes table holds for the user
GetPostsWithLikeStatus(postIDs, liked, dbFails) ==
    IF Len(postIDs) = 0 THEN [err |-> "", status |-> [p \in {} |-> FALSE]]
    ELSE IF dbFails
    THEN [err |-> "failed to fetch like status", status |-> [p \in {} |-> FALSE]]
    ELSE [err |-> "", status |-> [p \in Range(postIDs) |-> p \in liked]]

\* the handler's use of the lookup: on an error it goes on with an empty map
LikeStatusOrEmpty(looked) ==
    IF looked.err # "" THEN [p \in {} |-> FALSE] ELSE looked.status

\* toProtoPostConnection: IsLiked of each edge is a pointer to the map's value
\* for the post, which is false for a post the map does not hold
IsLikedFlags(edges, likeStatus) ==
    [i \in DOMAIN edges |->
        Some(IF edges[i].Node.id \in DOMAIN likeStatus
             THEN likeStatus[edges[i].Node.id] ELSE FALSE)]

\* the rest of FeedHandler.GetFeed for a read GetFeed has answered: the like
\* lookup and the response
HandlerResponse(rd, liked, dbFails) ==
    IF rd.code # "OK" THEN [rd EXCEPT !.prev = Nil]
    ELSE LET postIDs == [i \in DOMAIN rd.page.Edges |-> rd.page.Edges[i].Node.id]
             looked == GetPostsWithLikeStatus(postIDs, liked, dbFails)
         IN  [rd EXCEPT !.prev = Nil, !.likeErr = looked.err,
                        !.isLiked = IsLikedFlags(rd.page.Edges,
                                                 LikeStatusOrEmpty(looked))]

\* the handler finishes and the client takes the response; keep tells whether
\* it remembers it, liked is what the likes table holds for the user
Receive(r, keep, liked, dbFails) ==
    /\ Done(r)
    /\ reads' = [reads EXCEPT ![r] = IdleRead]
    /\ last' = IF keep THEN Some(HandlerResponse(reads[r], liked, dbFails))
               ELSE last
    /\ wbs' = EndScope(wbs, r, "returned")
    /\ UNCHANGED <<now, posts, follows, cache, fanVars, sideVars>>

\* the client cancels the request once GetFeed has its result; the response
\* is dropped
CancelRequest(r) ==
    /\ Done(r)
    /\ reads' = [reads EXCEPT ![r] = IdleRead]
    /\ wbs' = EndScope(wbs, r, "cancelled")
    /\ UNCHANGED <<now, posts, follows, cache, last, fanVars, sideVars>>

\* ------------------------------------------------------------ follow graph
FollowEdges == {<<"A", "B">>, <<"C", "B">>}

\* an edge is soft-deleted: deleted_at is set
Unfollow(e) ==
    /\ e \in DOMAIN follows /\ ~follows[e]
    /\ follows' = [follows EXCEPT ![e] = TRUE]
    /\ UNCHANGED <<now, posts, cache, reads, wbs, last, fanVars, sideVars>>

\* a soft-deleted edge is restored
Follow(e) ==
    /\ e \in DOMAIN follows /\ follows[e]
    /\ follows' = [follows EXCEPT ![e] = FALSE]
    /\ UNCHANGED <<now, posts, cache, reads, wbs, last, fanVars, sideVars>>

\* FollowRepository.GetFollowerIDs: the followers over edges not soft-deleted
GetFollowerIDs(userID) ==
    {e[1] : e \in {d \in DOMAIN follows : d[2] = userID /\ ~follows[d]}}

\* ------------------------------------------------------------ fan-out
SemCap == 10

\* the rows FanOutPost builds: one per follower, fresh id, the post, now
FeedItemsShort(call, followerIDs, postID) ==
    {[id |-> [call |-> call, user |-> f], user_id |-> f, post_id |-> postID,
      created_at |-> now] :
        f \in (IF followerIDs = {} THEN {}
                ELSE followerIDs \ {CHOOSE g \in followerIDs : TRUE})}

FeedItems(call, followerIDs, postID) ==
    {[id |-> [call |-> call, user |-> f], user_id |-> f, post_id |-> postID,
      created_at |-> now] : f \in followerIDs}

Conflicts(table, item) ==
    \E row \in table : row.user_id = item.user_id /\ row.post_id = item.post_id

\* INSERT ... ON CONFLICT (user_id, post_id) DO NOTHING over the unique index
\* idx_feed_service_cache_user_post: a row whose pair is present is skipped
InsertRowsPlain(table, items) == table \cup items

InsertRowsReplace(table, items) ==
    {row \in table : ~Conflicts(items, row)} \cup items

InsertRows(table, items) ==
    table \cup {item \in items : ~Conflicts(table, item)}

\* the foreign key of post_id: every row must name a stored post
ForeignKeyOk(items) == \A item \in items : item.post_id \in DOMAIN posts

\* FanOutPost after the bulk insert: on an error it returns it, otherwise it
\* starts invalidateFollowersCaches and returns nil
AfterBulkInsertAlwaysInvalidate(fo, failed, conflict) ==
    [fo EXCEPT !.pc = "returned",
               !.err = IF failed THEN "failed to fan out post" ELSE "",
               !.fault = failed, !.conflict = conflict,
               !.inv = [u \in Users |-> IF u \in fo.followerIDs THEN "waiting"
                                        ELSE "none"]]

AfterBulkInsertWaits(fo, failed, conflict) ==
    IF failed
    THEN [fo EXCEPT !.pc = "returned", !.err = "failed to fan out post",
                    !.fault = TRUE]
    ELSE [fo EXCEPT !.pc = "returned", !.conflict = conflict,
                    !.inv = [u \in Users |-> IF u \in fo.followerIDs THEN "ok"
                                             ELSE "none"]]

AfterBulkInsert(fo, failed, conflict) ==
    IF failed
    THEN [fo EXCEPT !.pc = "returned", !.err = "failed to fan out post",
                    !.fault = TRUE]
    ELSE [fo EXCEPT !.pc = "returned", !.conflict = conflict,
                    !.inv = [u \in Users |-> IF u \in fo.followerIDs THEN "waiting"
                                             ELSE "none"]]

\* FanOutPost up to the bulk insert: the follower lookup and the items
FanOutPostAlwaysInserts(t, postID, authorID, followFails) ==
    /\ fanouts[t].pc = "idle"
    /\ \A q \in 1..MaxFanOuts : q < t => fanouts[q].pc # "idle"
    /\ LET begun == [IdleFanOut EXCEPT !.postID = postID, !.authorID = authorID]
           followerIDs == GetFollowerIDs(authorID)
       IN  fanouts' = [fanouts EXCEPT ![t] =
              IF followFails
              THEN [begun EXCEPT !.pc = "returned", !.err = "failed to get followers"]
              ELSE [begun EXCEPT !.pc = "insert", !.followerIDs = followerIDs]]
    /\ UNCHANGED <<now, posts, follows, cache, reads, wbs, last, feedIdx, inserts, sideVars>>

FanOutPost(t, postID, authorID, followFails) ==
    /\ fanouts[t].pc = "idle"
    /\ \A q \in 1..MaxFanOuts : q < t => fanouts[q].pc # "idle"
    /\ LET begun == [IdleFanOut EXCEPT !.postID = postID, !.authorID = authorID]
           followerIDs == GetFollowerIDs(authorID)
       IN  fanouts' = [fanouts EXCEPT ![t] =
              IF followFails
              THEN [begun EXCEPT !.pc = "returned", !.err = "failed to get followers"]
              ELSE IF followerIDs = {}
              THEN [begun EXCEPT !.pc = "returned"]
              ELSE [begun EXCEPT !.pc = "insert", !.followerIDs = followerIDs]]
    /\ UNCHANGED <<now, posts, follows, cache, reads, wbs, last, feedIdx, inserts, sideVars>>

\* BulkInsertFeedItems and the rest of FanOutPost
BulkInsertFeedItems(t, dbFails) ==
    /\ fanouts[t].pc = "insert"
    /\ LET fo == fanouts[t]
           items == FeedItems(t, fo.followerIDs, fo.postID)
           failed == dbFails \/ ~ForeignKeyOk(items)
           conflict == \E item \in items : Conflicts(feedIdx, item)
       IN  /\ feedIdx' = IF failed THEN feedIdx ELSE InsertRows(feedIdx, items)
           /\ fanouts' = [fanouts EXCEPT ![t] = AfterBulkInsert(fo, failed, conflict)]
    /\ UNCHANGED <<now, posts, follows, cache, reads, wbs, last, inserts, sideVars>>

\* InsertFeedItem: one row, the same conflict policy
InsertFeedItem(userID, postID, dbFails) ==
    /\ inserts < MaxInserts
    /\ inserts' = inserts + 1
    /\ LET items == {[id |-> [call |-> MaxFanOuts + inserts + 1, user |-> userID],
                      user_id |-> userID, post_id |-> postID, created_at |-> now]}
       IN  feedIdx' = IF dbFails \/ ~ForeignKeyOk(items) THEN feedIdx
                      ELSE InsertRows(feedIdx, items)
    /\ UNCHANGED <<now, posts, follows, cache, reads, wbs, last, fanouts, sideVars>>

Running(t) == {u \in Users : fanouts[t].inv[u] = "running"}

\* a goroutine of invalidateFollowersCaches takes a slot of the semaphore
InvalidateAcquireUnbounded(t, u) ==
    /\ fanouts[t].inv[u] = "waiting"
    /\ fanouts' = [fanouts EXCEPT ![t].inv[u] = "running"]
    /\ UNCHANGED <<now, posts, follows, cache, reads, wbs, last, feedIdx, inserts, sideVars>>

InvalidateAcquire(t, u) ==
    /\ fanouts[t].inv[u] = "waiting"
    /\ Cardinality(Running(t)) < SemCap
    /\ fanouts' = [fanouts EXCEPT ![t].inv[u] = "running"]
    /\ UNCHANGED <<now, posts, follows, cache, reads, wbs, last, feedIdx, inserts, sideVars>>

\* the goroutines after one InvalidateUserFeed returned: a failure is printed
AfterInvalidateAbortOnFailure(inv, u, failed) ==
    IF failed
    THEN [v \in Users |-> IF v = u THEN "failed"
                          ELSE IF inv[v] = "waiting" THEN "none" ELSE inv[v]]
    ELSE [inv EXCEPT ![u] = "ok"]

AfterInvalidateRetries(inv, u, failed) ==
    [inv EXCEPT ![u] = IF failed THEN "waiting" ELSE "ok"]

AfterInvalidate(inv, u, failed) ==
    [inv EXCEPT ![u] = IF failed THEN "failed" ELSE "ok"]

\* feedRepository.InvalidateUserFeed: DEL of the user's key
DelEveryKey(u, redisFails) ==
    /\ cache' = IF redisFails THEN cache ELSE [v \in Users |-> EmptyZSet]
    /\ ttl' = IF redisFails THEN ttl ELSE NoKeys
    /\ origin' = IF redisFails THEN origin ELSE NoOrigins

Del(u, redisFails) ==
    /\ cache' = IF redisFails THEN cache ELSE [cache EXCEPT ![u] = EmptyZSet]
    /\ ttl' = IF redisFails THEN ttl ELSE [ttl EXCEPT ![u] = 0]
    /\ origin' = IF redisFails THEN origin ELSE [origin EXCEPT ![u] = Nil]

\* InvalidateUserFeed in a goroutine holding a slot, and the slot's release
InvalidateUserFeed(t, u, redisFails) ==
    /\ fanouts[t].inv[u] = "running"
    /\ Del(u, redisFails)
    /\ fanouts' = [fanouts EXCEPT ![t].inv = AfterInvalidate(@, u, redisFails)]
    /\ UNCHANGED <<now, posts, follows, reads, wbs, last, feedIdx, inserts,
                   jobVars, svcVars>>

\* ------------------------------------------------------------ refresh
\* RefreshUserFeed up to the build: InvalidateUserFeed, whose error ends it
RefreshUserFeedKeepsCache(t, userID, redisFails) ==
    /\ refreshes[t].pc = "idle"
    /\ \A q \in 1..MaxRefreshes : q < t => refreshes[q].pc = "returned"
    /\ UNCHANGED <<cache, ttl, origin>>
    /\ refreshes' = [refreshes EXCEPT ![t] =
          IF redisFails
          THEN [IdleRefresh EXCEPT !.pc = "returned", !.user = userID,
                                   !.err = "failed to invalidate feed cache"]
          ELSE [IdleRefresh EXCEPT !.pc = "build", !.user = userID]]
    /\ UNCHANGED <<now, posts, follows, reads, wbs, last, fanVars, jobVars, counters>>

RefreshUserFeed(t, userID, redisFails) ==
    /\ refreshes[t].pc = "idle"
    /\ \A q \in 1..MaxRefreshes : q < t => refreshes[q].pc = "returned"
    /\ Del(userID, redisFails)
    /\ refreshes' = [refreshes EXCEPT ![t] =
          IF redisFails
          THEN [IdleRefresh EXCEPT !.pc = "returned", !.user = userID,
                                   !.err = "failed to invalidate feed cache"]
          ELSE [IdleRefresh EXCEPT !.pc = "build", !.user = userID]]
    /\ UNCHANGED <<now, posts, follows, reads, wbs, last, fanVars, jobVars, counters>>

\* RefreshUserFeed's build: BuildFeedForUser(userID, 100), whose error ends it
RefreshBuildGoesOn(t, dbFails) ==
    /\ refreshes[t].pc = "build"
    /\ \E rows \in IF dbFails THEN {<<>>}
                   ELSE BuildFeedForUser(refreshes[t].user, RefreshLimit) :
          refreshes' = [refreshes EXCEPT ![t] =
              [@ EXCEPT !.pc = "cache", !.rows = rows, !.seen = DOMAIN posts,
                        !.err = IF dbFails THEN "failed to build feed" ELSE ""]]
    /\ UNCHANGED <<now, posts, follows, cache, reads, wbs, last, fanVars, jobVars,
                   keyVars, counters>>

RefreshBuild(t, dbFails) ==
    /\ refreshes[t].pc = "build"
    /\ \E rows \in IF dbFails THEN {<<>>}
                   ELSE BuildFeedForUser(refreshes[t].user, RefreshLimit) :
          refreshes' = [refreshes EXCEPT ![t] =
              IF dbFails
              THEN [@ EXCEPT !.pc = "returned", !.err = "failed to build feed"]
              ELSE [@ EXCEPT !.pc = "cache", !.rows = rows, !.seen = DOMAIN posts]]
    /\ UNCHANGED <<now, posts, follows, cache, reads, wbs, last, fanVars, jobVars,
                   keyVars, counters>>

\* RefreshUserFeed's last call: CacheFeedItems with the rows built
RefreshCache(t, redisFails) ==
    /\ refreshes[t].pc = "cache"
    /\ Pipeline(refreshes[t].user, refreshes[t].rows, refreshes[t].seen, redisFails)
    /\ refreshes' = [refreshes EXCEPT ![t] =
          [@ EXCEPT !.pc = "returned",
                    !.err = IF Len(refreshes[t].rows) > 0 /\ redisFails
                            THEN "failed to cache feed" ELSE ""]]
    /\ UNCHANGED <<now, posts, follows, reads, wbs, last, fanVars, jobVars, counters>>

\* the cursors a client may send
AfterValues ==
    {Nil} \cup {Some(c) : c \in BadCursors \cup IssuedCursors}

Slots == 1..MaxReads

NextRead ==
    \/ Tick
    \/ \E u \in Readers : Expire(u)
    \/ \E u \in Readers : CorruptMember(u)
    \/ \E a \in Authors, l \in LikeCounts, c \in CommentCounts : CreatePost(a, l, c)
    \/ \E r \in Slots, u \in Readers \cup {BadUserId}, f \in FirstValues,
          a \in AfterValues : HandlerGetFeed(r, u, f, a)
    \/ \E r \in Slots, fails \in BOOLEAN : GetCachedFeedRange(r, fails)
    \/ \E r \in Slots, fails \in BOOLEAN : GetCachedFeedHydrate(r, fails)
    \/ \E r \in Slots, fails \in BOOLEAN : GetFeedBuild(r, fails)
    \/ \E w \in wbs, fails \in BOOLEAN : CacheFeedItems(w, fails)
    \/ \E r \in Slots, fails \in BOOLEAN : Receive(r, FALSE, {}, fails)
    \/ \E r \in Slots : CancelRequest(r)

SpecRead == Init /\ [][NextRead]_vars

\* A client that pages: it remembers each response and sends either no cursor
\* or the end cursor of the page it holds.  No call fails.
HeldCursors ==
    IF last # Nil /\ last[1].page.EndCursor # Nil
    THEN {Nil, last[1].page.EndCursor} ELSE {Nil}

NextSession ==
    \/ Tick
    \/ \E u \in Readers : Expire(u)
    \/ \E a \in Authors, l \in LikeCounts, c \in CommentCounts : CreatePost(a, l, c)
    \/ \E r \in Slots, u \in Readers, f \in FirstValues, a \in HeldCursors :
          HandlerGetFeed(r, u, f, a)
    \/ \E r \in Slots : GetCachedFeedRange(r, FALSE)
    \/ \E r \in Slots : GetCachedFeedHydrate(r, FALSE)
    \/ \E r \in Slots : GetFeedBuild(r, FALSE)
    \/ \E w \in wbs : CacheFeedItems(w, FALSE)
    \/ \E r \in Slots : Receive(r, TRUE, {}, FALSE)

SpecSession == Init /\ [][NextSession]_vars

\* Reads of one user over a post store that does not change: the posts of B
\* are there from the start, the cache is empty, nothing fails or expires.
WarmStores ==
    UNION {[1..n -> [user_id : {"B"}, created_at : {0}, likes_count : LikeCounts,
                     comments_count : {0}]] : n \in 0..MaxPosts}

InitWarm ==
    /\ now = 0 /\ posts \in WarmStores
    /\ follows = [e \in {<<"A", "B">>, <<"A", "C">>, <<"C", "B">>}
                           \cup {<<f, Star>> : f \in Crowd} |-> FALSE]
    /\ cache = [u \in Users |-> EmptyZSet]
    /\ reads = [r \in Slots |-> IdleRead]
    /\ wbs = {} /\ last = Nil
    /\ feedIdx = {} /\ inserts = 0
    /\ fanouts = [t \in 1..MaxFanOuts |-> IdleFanOut]
    /\ cleanups = NoCleanup /\ calc = NoCalc
    /\ ttl = NoKeys /\ origin = NoOrigins
    /\ refreshes = [t \in 1..MaxRefreshes |-> IdleRefresh]
    /\ counters = NewPostCounts

NextWarm ==
    \/ \E r \in Slots, f \in FirstValues, a \in {Nil} \cup {Some(c) : c \in IssuedCursors} :
          HandlerGetFeed(r, "A", f, a)
    \/ \E r \in Slots : GetCachedFeedRange(r, FALSE)
    \/ \E r \in Slots : GetCachedFeedHydrate(r, FALSE)
    \/ \E r \in Slots : GetFeedBuild(r, FALSE)
    \/ \E w \in wbs : CacheFeedItems(w, FALSE)
    \/ \E r \in Slots : Receive(r, FALSE, {}, FALSE)

SpecWarm == InitWarm /\ [][NextWarm]_vars

\* a row of feed_service_posts is deleted; the rows of feed_service_cache that
\* refer to it go with it (ON DELETE CASCADE)
DeletePost(p) ==
    /\ p \in DOMAIN posts
    /\ posts' = [q \in DOMAIN posts \ {p} |-> posts[q]]
    /\ feedIdx' = {row \in feedIdx : row.post_id # p}
    /\ UNCHANGED <<now, follows, cache, reads, wbs, last, fanouts, inserts, sideVars>>

\* feedBuilder.RemovePostFromFeeds, called for a deleted post: it returns nil
RemovePostFromFeeds(postID) ==
    /\ postID \notin DOMAIN posts
    /\ UNCHANGED vars

\* Reads of one user while posts of the store are deleted; no post is added.
NextGone ==
    \/ \E r \in Slots, f \in FirstValues, a \in {Nil} \cup {Some(c) : c \in IssuedCursors} :
          HandlerGetFeed(r, "A", f, a)
    \/ \E r \in Slots : GetCachedFeedRange(r, FALSE)
    \/ \E r \in Slots : GetCachedFeedHydrate(r, FALSE)
    \/ \E r \in Slots : GetFeedBuild(r, FALSE)
    \/ \E w \in wbs : CacheFeedItems(w, FALSE)
    \/ \E r \in Slots : Receive(r, FALSE, {}, FALSE)
    \/ \E p \in PostIds : DeletePost(p)
    \/ \E p \in PostIds : RemovePostFromFeeds(p)

SpecGone == InitWarm /\ [][NextGone]_vars

\* Reads of first pages whose like lookup may fail; the user may have liked any
\* of the posts.  Nothing else fails.
NextLikes ==
    \/ \E l \in LikeCounts : CreatePost("B", l, 0)
    \/ \E r \in Slots, f \in FirstValues : HandlerGetFeed(r, "A", f, Nil)
    \/ \E r \in Slots : GetCachedFeedRange(r, FALSE)
    \/ \E r \in Slots : GetCachedFeedHydrate(r, FALSE)
    \/ \E r \in Slots : GetFeedBuild(r, FALSE)
    \/ \E w \in wbs : CacheFeedItems(w, FALSE)
    \/ \E r \in Slots, liked \in SUBSET PostIds, fails \in BOOLEAN :
          Receive(r, TRUE, liked, fails)

SpecLikes == Init /\ [][NextLikes]_vars

\* ------------------------------------------------------------ cleanup
RetentionDays == 30

\* the job's horizon: time.Now().AddDate(0, 0, -30)
OlderThanNow(day) == day

OlderThan(day) == day - RetentionDays

\* DELETE FROM feed_service_cache WHERE created_at < $1: the rows left
CleanupRows(table, olderThan) ==
    {row \in table : ~(row.created_at < olderThan)}

\* one turn of the cleanup job: the horizon and CleanupOldFeedItems; again
\* tells that the run before had the same horizon and did not fail
CleanupOldFeedItems(dbFails) ==
    /\ cleanups.runs < MaxCleanups
    /\ LET olderThan == OlderThan(now)
       IN  /\ feedIdx' = IF dbFails THEN feedIdx
                          ELSE CleanupRows(feedIdx, olderThan)
           /\ cleanups' = [cleanups EXCEPT
                            !.runs = cleanups.runs + 1, !.olderThan = olderThan,
                            !.failed = dbFails,
                            !.again = /\ cleanups.runs > 0 /\ ~cleanups.failed
                                      /\ cleanups.olderThan = olderThan]
    /\ UNCHANGED <<now, posts, follows, cache, reads, wbs, last, fanouts, inserts,
                   calc, keyVars, svcVars>>

\* the retention period passes
Elapse(days) ==
    /\ now <= MaxTime
    /\ now' = now + days
    /\ cache' = [u \in Users |-> EmptyZSet]
    /\ ttl' = NoKeys /\ origin' = NoOrigins
    /\ UNCHANGED <<posts, follows, reads, wbs, last, fanVars, jobVars, svcVars>>

\* cleanupTicker: 24 hours pass and a tick is sent; the channel holds one tick
\* and a tick that finds it full is dropped
TickerFires ==
    /\ cleanups.ticks < MaxTicks
    /\ now' = now + 1
    /\ cache' = [u \in Users |-> EmptyZSet]
    /\ ttl' = NoKeys /\ origin' = NoOrigins
    /\ cleanups' = [cleanups EXCEPT !.due = 1, !.ticks = @ + 1]
    /\ UNCHANGED <<posts, follows, reads, wbs, last, fanVars, calc, svcVars>>

\* what a turn of the job's loop leaves of the tick it took
TickTaken(dbFails) == 0

\* the loop of startBackgroundJobs has left after a failed run
LoopEndedOnFailure == cleanups.failed

LoopEnded == FALSE

\* one turn of the loop of startBackgroundJobs: it takes the tick, computes
\* the horizon and calls CleanupOldFeedItems; an error is logged
startBackgroundJobs(dbFails) ==
    /\ ~LoopEnded
    /\ cleanups.due = 1
    /\ LET olderThan == OlderThan(now)
       IN  /\ feedIdx' = IF dbFails THEN feedIdx
                          ELSE CleanupRows(feedIdx, olderThan)
           /\ cleanups' = [cleanups EXCEPT
                            !.runs = cleanups.runs + 1, !.olderThan = olderThan,
                            !.failed = dbFails,
                            !.again = /\ cleanups.runs > 0 /\ ~cleanups.failed
                                      /\ cleanups.olderThan = olderThan,
                            !.due = TickTaken(dbFails)]
    /\ UNCHANGED <<now, posts, follows, cache, reads, wbs, last, fanouts, inserts,
                   calc, keyVars, svcVars>>

\* The fan-out write path beside posts being stored, follows changing and the
\* single-row insert.
Calls == 1..MaxFanOuts
FanPosts == 1..(MaxPosts - 1)
FanAuthors == {"A", "B"}

NextFanOut ==
    \/ CreatePost("B", 0, 0)
    \/ \E e \in FollowEdges : Unfollow(e)
    \/ \E e \in FollowEdges : Follow(e)
    \/ \E t \in Calls, p \in FanPosts, a \in FanAuthors, fails \in BOOLEAN :
          FanOutPost(t, p, a, fails)
    \/ \E t \in Calls, fails \in BOOLEAN : BulkInsertFeedItems(t, fails)
    \/ \E u \in Friends, p \in FanPosts, fails \in BOOLEAN : InsertFeedItem(u, p, fails)
    \/ \E t \in Calls, u \in Friends : InvalidateAcquire(t, u)
    \/ \E t \in Calls, u \in Friends, fails \in BOOLEAN : InvalidateUserFeed(t, u, fails)

SpecFanOut == Init /\ [][NextFanOut]_vars

\* The cleanup job beside fan-outs, over a span longer than the retention.
NextCleanup ==
    \/ Tick
    \/ Elapse(RetentionDays)
    \/ CreatePost("B", 0, 0)
    \/ \E t \in Calls, p \in FanPosts : FanOutPost(t, p, "B", FALSE)
    \/ \E t \in Calls, fails \in BOOLEAN : BulkInsertFeedItems(t, fails)
    \/ \E fails \in BOOLEAN : CleanupOldFeedItems(fails)

SpecCleanup == Init /\ [][NextCleanup]_vars

\* Builds for a reader beside posts of followed and other authors, a follow
\* edge that comes and goes, and days passing up to the end of the window.
BuildAuthors == {"B", Star}
Spans == {WindowDays \div 2, WindowDays}

NextBuild ==
    \/ Tick
    \/ \E d \in Spans : Elapse(d)
    \/ \E a \in BuildAuthors, l \in LikeCounts : CreatePost(a, l, 0)
    \/ Unfollow(<<"A", "B">>)
    \/ Follow(<<"A", "B">>)
    \/ \E r \in Slots, f \in FirstValues : HandlerGetFeed(r, "A", f, Nil)
    \/ \E r \in Slots : GetCachedFeedRange(r, FALSE)
    \/ \E r \in Slots : GetCachedFeedHydrate(r, FALSE)
    \/ \E r \in Slots : GetFeedBuild(r, FALSE)
    \/ \E w \in wbs : CacheFeedItems(w, FALSE)
    \/ \E r \in Slots : Receive(r, FALSE, {}, FALSE)

SpecBuild == Init /\ [][NextBuild]_vars

\* The cache of one reader under what writes it: the write-backs of reads
\* (first pages and pages past the cached ones), an explicit refresh, and the
\* key ageing and expiring.
DeepCursors == {Nil, Some(encodeCursor(MaxPosts - 1))}

NextCache ==
    \/ CreatePost("B", 0, 0)
    \/ Age("A")
    \/ Expire("A")
    \/ \E r \in Slots, f \in FirstValues, a \in DeepCursors :
          HandlerGetFeed(r, "A", f, a)
    \/ \E r \in Slots : GetCachedFeedRange(r, FALSE)
    \/ \E r \in Slots : GetCachedFeedHydrate(r, FALSE)
    \/ \E r \in Slots : GetFeedBuild(r, FALSE)
    \/ \E w \in wbs, fails \in BOOLEAN : CacheFeedItems(w, fails)
    \/ \E r \in Slots : Receive(r, FALSE, {}, FALSE)
    \/ \E fails \in BOOLEAN : RefreshUserFeed(1, "A", fails)
    \/ \E fails \in BOOLEAN : RefreshBuild(1, fails)
    \/ \E fails \in BOOLEAN : RefreshCache(1, fails)

SpecCache == Init /\ [][NextCache]_vars

\* The caches of two followers of one author under every feed operation: reads
\* with their write-backs, a refresh, and the invalidations of a fan-out.
CacheReaders == {"A", "C"}

NextFrame ==
    \/ Cardinality(DOMAIN posts) < MaxPosts - 1 /\ CreatePost("B", 0, 0)
    \/ \E r \in Slots, u \in CacheReaders : HandlerGetFeed(r, u, 1, Nil)
    \/ \E r \in Slots : GetCachedFeedRange(r, FALSE)
    \/ \E r \in Slots : GetCachedFeedHydrate(r, FALSE)
    \/ \E r \in Slots : GetFeedBuild(r, FALSE)
    \/ \E w \in wbs : CacheFeedItems(w, FALSE)
    \/ \E r \in Slots : Receive(r, FALSE, {}, FALSE)
    \/ \E u \in CacheReaders, fails \in BOOLEAN : RefreshUserFeed(1, u, fails)
    \/ RefreshBuild(1, FALSE)
    \/ RefreshCache(1, FALSE)
    \/ FanOutPost(1, 1, "B", FALSE)
    \/ BulkInsertFeedItems(1, FALSE)
    \/ \E u \in CacheReaders : InvalidateAcquire(1, u)
    \/ \E u \in CacheReaders, fails \in BOOLEAN : InvalidateUserFeed(1, u, fails)

SpecFrame == Init /\ [][NextFrame]_vars

\* Refreshes of one reader, one after the other, with nothing else touching
\* the reader's key but its expiry, while posts arrive and the follow edge to
\* their author comes and goes.
RefreshCalls == 1..MaxRefreshes

NextRefresh ==
    \/ \E l \in LikeCounts : CreatePost("B", l, 0)
    \/ Unfollow(<<"A", "B">>)
    \/ Follow(<<"A", "B">>)
    \/ Tick
    \/ Expire("A")
    \/ \E t \in RefreshCalls, fails \in BOOLEAN : RefreshUserFeed(t, "A", fails)
    \/ \E t \in RefreshCalls, fails \in BOOLEAN : RefreshBuild(t, fails)
    \/ \E t \in RefreshCalls, fails \in BOOLEAN : RefreshCache(t, fails)

SpecRefresh == Init /\ [][NextRefresh]_vars

\* A follower's cache around the fan-out of a post: reads of first pages and
\* of pages past the cached ones with their write-backs, the fan-out and its
\* invalidations, and the key running out an hour after it was last set.
\* Started write-backs and invalidations finish, and time passes.
FannedOut == MaxPosts - 1

ExpireDue(u) == ttl[u] > 0 /\ ttl[u] < OneHour /\ Expire(u)

WriteBackRuns == \E w \in wbs, fails \in BOOLEAN : CacheFeedItems(w, fails)

InvalidationStarts == \E u \in CacheReaders : InvalidateAcquire(1, u)

InvalidationRuns ==
    \E u \in CacheReaders, fails \in BOOLEAN : InvalidateUserFeed(1, u, fails)

NextConverge ==
    \/ CreatePost("B", 0, 0)
    \/ Age("A")
    \/ ExpireDue("A")
    \/ \E r \in Slots, f \in FirstValues, a \in DeepCursors :
          HandlerGetFeed(r, "A", f, a)
    \/ \E r \in Slots : GetCachedFeedRange(r, FALSE)
    \/ \E r \in Slots : GetCachedFeedHydrate(r, FALSE)
    \/ \E r \in Slots : GetFeedBuild(r, FALSE)
    \/ WriteBackRuns
    \/ \E r \in Slots : Receive(r, FALSE, {}, FALSE)
    \/ FanOutPost(1, FannedOut, "B", FALSE)
    \/ BulkInsertFeedItems(1, FALSE)
    \/ InvalidationStarts
    \/ InvalidationRuns

SpecConverge ==
    /\ Init /\ [][NextConverge]_vars
    /\ WF_vars(WriteBackRuns)
    /\ WF_vars(InvalidationStarts)
    /\ WF_vars(InvalidationRuns)
    /\ WF_vars(Age("A"))
    /\ WF_vars(ExpireDue("A"))

\* The cleanup job on its ticker, its runs failing or not, beside reads and a
\* fan-out.  The job's goroutine is scheduled.
JobRuns == \E fails \in BOOLEAN : startBackgroundJobs(fails)

NextJob ==
    \/ TickerFires
    \/ JobRuns
    \/ DOMAIN posts = {} /\ CreatePost("B", 0, 0)
    \/ FanOutPost(1, 1, "B", FALSE)
    \/ BulkInsertFeedItems(1, FALSE)
    \/ \E r \in Slots : HandlerGetFeed(r, "A", 1, Nil)
    \/ \E r \in Slots : GetCachedFeedRange(r, FALSE)
    \/ \E r \in Slots : GetCachedFeedHydrate(r, FALSE)
    \/ \E r \in Slots : GetFeedBuild(r, FALSE)
    \/ \E w \in wbs : CacheFeedItems(w, FALSE)
    \/ \E r \in Slots : Receive(r, FALSE, {}, FALSE)

SpecJob == Init /\ [][NextJob]_vars /\ WF_vars(JobRuns)

\* ------------------------------------------------------------ post counters
\* INTEGER: the largest value of a count
Int32Max == 2147483647

\* UPDATE post_service_posts SET column = value: it fails, changing nothing,
\* when the value is out of the range of INTEGER (Nil) or breaks the CHECK
\* (column >= 0)
UpdateError(value) ==
    IF value = Nil THEN "integer out of range"
    ELSE IF value[1] < 0 THEN "violates check constraint"
    ELSE ""

\* n + 1 in INTEGER arithmetic
Plus1(n) == IF n < Int32Max THEN Some(n + 1) ELSE Nil

\* GREATEST(n - 1, 0)
Minus1(n) == Some(n - 1)

Minus1Floor(n) == Some(Greatest(n - 1, 0))

UpdateLikes(op, value) ==
    /\ counters.ops < MaxOps
    /\ counters' = [counters EXCEPT
                       !.ops = @ + 1, !.op = op, !.err = UpdateError(value),
                       !.likes_count = IF UpdateError(value) = "" THEN value[1] ELSE @]
    /\ UNCHANGED <<now, posts, follows, cache, reads, wbs, last, fanVars, jobVars,
                   keyVars, refreshes>>

UpdateComments(op, value) ==
    /\ counters.ops < MaxOps
    /\ counters' = [counters EXCEPT
                       !.ops = @ + 1, !.op = op, !.err = UpdateError(value),
                       !.comments_count = IF UpdateError(value) = "" THEN value[1] ELSE @]
    /\ UNCHANGED <<now, posts, follows, cache, reads, wbs, last, fanVars, jobVars,
                   keyVars, refreshes>>

IncrementCommentsCount ==
    UpdateComments("IncrementCommentsCount", Plus1(counters.comments_count))

DecrementCommentsCount ==
    UpdateComments("DecrementCommentsCount", Minus1Floor(counters.comments_count))

IncrementLikesCount ==
    UpdateLikes("IncrementLikesCount", Plus1(counters.likes_count))

DecrementLikesCount ==
    UpdateLikes("DecrementLikesCount", Minus1Floor(counters.likes_count))

\* a post row with fresh counts or with counts one short of the largest
CountStarts == {0, Int32Max - 1}

InitCounters ==
    /\ Fresh /\ calc = NoCalc
    /\ counters \in {[NewPostCounts EXCEPT !.likes_count = l, !.comments_count = c] :
                        l \in CountStarts, c \in CountStarts}

NextCounters ==
    \/ IncrementCommentsCount
    \/ DecrementCommentsCount
    \/ IncrementLikesCount
    \/ DecrementLikesCount

SpecCounters == InitCounters /\ [][NextCounters]_vars

\* ------------------------------------------------------------ cursors
\* a call of a cursor function: its arguments, the cursor and the result
CursorCall(fn, n, time, id, cursor) ==
    [fn |-> fn, stage |-> "called", n |-> n, time |-> time, id |-> id,
     cursor |-> cursor, outErr |-> FALSE, outN |-> 0, outTime |-> UnixTime(0),
     outId |-> 0]

\* post timestamps: whole seconds and seconds with a sub-second part
Times ==
    {[sec |-> s, nsec |-> ns] : s \in {-1, 0, 7, 1700000000},
                                ns \in {0, 1, 500000000}}

\* texts a client may send base64-encoded as a feed cursor: "1x", "-1", " 1",
\* "+1", "01", "x", "" and "2"
ClientTexts ==
    {<<Zero + 1, LetterX>>, <<Minus, Zero + 1>>, <<Space, Zero + 1>>,
     <<Plus, Zero + 1>>, <<Zero, Zero + 1>>, <<LetterX>>, <<>>, <<Zero + 2>>}

\* the cursors a client may send: those texts encoded, "!!!!", and an issued
\* cursor with a line break in it
ClientCursors ==
    {EncodeToString(t) : t \in ClientTexts}
    \cup {<<BadChar, BadChar, BadChar, BadChar>>}
    \cup {<<NewLine>> \o encodeCursor(1)}

CursorCalls ==
    {CursorCall("encodeCursor", n, UnixTime(0), 0, <<>>) : n \in 0..MaxCursorOffset}
    \cup {CursorCall("PostEncodeCursor", 0, t, id, <<>>) : t \in Times, id \in PostIds}
    \cup {CursorCall("decodeCursor", 0, UnixTime(0), 0, c) : c \in ClientCursors}

InitCursor == Fresh /\ calc \in CursorCalls /\ counters = NewPostCounts

\* the feed service issues a cursor for an offset
EncodeFeedCursor ==
    /\ calc.fn = "encodeCursor" /\ calc.stage = "called"
    /\ calc' = [calc EXCEPT !.stage = "encoded", !.cursor = encodeCursor(calc.n)]
    /\ UNCHANGED <<now, posts, follows, cache, reads, wbs, last, fanVars, cleanups,
                   keyVars, svcVars>>

\* the feed service decodes a cursor: one it issued or one a client made up
DecodeFeedCursor ==
    /\ \/ calc.fn = "encodeCursor" /\ calc.stage = "encoded"
       \/ calc.fn = "decodeCursor" /\ calc.stage = "called"
    /\ LET d == decodeCursor(calc.cursor)
       IN  calc' = [calc EXCEPT !.stage = "decoded", !.outErr = d.err,
                                !.outN = d.offset]
    /\ UNCHANGED <<now, posts, follows, cache, reads, wbs, last, fanVars, cleanups,
                   keyVars, svcVars>>

\* the post service issues a keyset cursor for a post
EncodePostCursor ==
    /\ calc.fn = "PostEncodeCursor" /\ calc.stage = "called"
    /\ calc' = [calc EXCEPT !.stage = "encoded",
                            !.cursor = PostEncodeCursor(calc.time, calc.id)]
    /\ UNCHANGED <<now, posts, follows, cache, reads, wbs, last, fanVars, cleanups,
                   keyVars, svcVars>>

\* the post service decodes the cursor it issued
DecodePostCursor ==
    /\ calc.fn = "PostEncodeCursor" /\ calc.stage = "encoded"
    /\ LET d == PostDecodeCursor(calc.cursor)
       IN  calc' = [calc EXCEPT !.stage = "decoded", !.outErr = d.err,
                                !.outTime = d.Timestamp, !.outId = d.ID]
    /\ UNCHANGED <<now, posts, follows, cache, reads, wbs, last, fanVars, cleanups,
                   keyVars, svcVars>>

\* Cursors issued and decoded, and a feed read sent with a client's cursor.
NextCursor ==
    \/ EncodeFeedCursor
    \/ DecodeFeedCursor
    \/ EncodePostCursor
    \/ DecodePostCursor
    \/ \E r \in Slots, f \in FirstValues :
          /\ calc.fn = "decodeCursor"
          /\ HandlerGetFeed(r, "A", f, Some(calc.cursor))

SpecCursor == InitCursor /\ [][NextCursor]_vars

\* ------------------------------------------------------------ scores
\* posts to rank: created up to two days ago or a day ahead of the clock
ScoreDays == {0 - 2, 0 - 1, 0, 1}
ScoreLikes == {0, 1, 9, 99}
ScoreComments == {0, 1, 9}

ScorePosts ==
    [created_at : ScoreDays, likes_count : ScoreLikes,
     comments_count : ScoreComments]

\* two posts to score and their scores by the query and by the service
InitScore ==
    /\ Fresh
    /\ counters = NewPostCounts
    /\ calc \in {[fn |-> "score", stage |-> "called", a |-> a, b |-> b,
                   sqlA |-> 0, sqlB |-> 0, goA |-> 0, goB |-> 0] :
                     a \in ScorePosts, b \in ScorePosts}

ScorePair ==
    /\ calc.fn = "score" /\ calc.stage = "called"
    /\ calc' = [calc EXCEPT !.stage = "scored",
                            !.sqlA = feed_score(calc.a, now),
                            !.sqlB = feed_score(calc.b, now),
                            !.goA = CalculateFeedScore(calc.a, now),
                            !.goB = CalculateFeedScore(calc.b, now)]
    /\ UNCHANGED <<now, posts, follows, cache, reads, wbs, last, fanVars, cleanups,
                   keyVars, svcVars>>

NextScore == ScorePair

\* ------------------------------------------------------- post-service pages
\* timestamps compare by second, then by the sub-second part
TimeBefore(a, b) == a.sec < b.sec \/ (a.sec = b.sec /\ a.nsec < b.nsec)

\* the row comparison (created_at, id) < (afterTime, afterID)
RowBefore(time, id, afterTime, afterID) ==
    TimeBefore(time, afterTime) \/ (time = afterTime /\ id < afterID)

\* the main query of GetUserPosts: the user's rows, those before the cursor
\* when there is one, ORDER BY created_at DESC, id DESC LIMIT first + 1
UserPostsQuery(table, hasCursor, afterTime, afterID, limit) ==
    LET hits == {p \in DOMAIN table :
                    hasCursor => RowBefore(table[p], p, afterTime, afterID)}
        sorted == CHOOSE f \in Perms(hits) :
                    \A i, j \in DOMAIN f :
                        i < j => RowBefore(table[f[j]], f[j], table[f[i]], f[i])
    IN  Take(sorted, limit)

\* creation times of a user's posts: two within one second, one a second later
PageTimes ==
    {[sec |-> 7, nsec |-> 0], [sec |-> 7, nsec |-> 500000000], [sec |-> 8, nsec |-> 0]}

\* a client about to page through a user's posts, which do not change
PagingCalls ==
    {[fn |-> "GetUserPosts", stage |-> "paging", table |-> table, first |-> first,
      after |-> Nil, seen |-> <<>>, pages |-> 0] :
        table \in UNION {[1..n -> PageTimes] : n \in 0..MaxPosts},
        first \in FirstValues}

InitPages == Fresh /\ calc \in PagingCalls /\ counters = NewPostCounts

\* postRepository.GetUserPosts for the cursor the client holds; the client
\* keeps the end cursor of the page while hasNextPage is true
GetUserPosts ==
    /\ calc.fn = "GetUserPosts" /\ calc.stage = "paging"
    /\ LET hasCursor == calc.after # Nil /\ calc.after[1] # <<>>
           decoded == IF hasCursor THEN PostDecodeCursor(calc.after[1])
                      ELSE [err |-> FALSE, Timestamp |-> UnixTime(0), ID |-> 0]
           rows == UserPostsQuery(calc.table, hasCursor, decoded.Timestamp,
                                  decoded.ID, calc.first + 1)
           hasNextPage == Len(rows) > calc.first
           kept == IF hasNextPage THEN Take(rows, calc.first) ELSE rows
           endCursor == IF Len(kept) > 0
                        THEN Some(PostEncodeCursor(calc.table[kept[Len(kept)]],
                                                   kept[Len(kept)]))
                        ELSE Nil
       IN  calc' = IF decoded.err
                   THEN [calc EXCEPT !.stage = "invalid cursor"]
                   ELSE [calc EXCEPT !.stage = IF hasNextPage THEN "paging" ELSE "done",
                                     !.after = endCursor,
                                     !.seen = @ \o kept,
                                     !.pages = @ + 1]
    /\ UNCHANGED <<now, posts, follows, cache, reads, wbs, last, fanVars, cleanups,
                   keyVars, svcVars>>

NextPages == GetUserPosts

SpecPages == InitPages /\ [][NextPages]_vars

\* ------------------------------------------------------ post-service create
\* the post service between CreatePost calls: events holds the posts a
\* post-created event was published for, rows the posts stored, failed the
\* posts whose insert failed
NoCreateCalls ==
    [fn |-> "CreatePost", stage |-> "idle", calls |-> 0, postID |-> 0,
     events |-> {}, rows |-> {}, failed |-> {}, code |-> "", msg |-> ""]

InitPublish == Fresh /\ calc = NoCreateCalls /\ counters = NewPostCounts

RequestUserIds == {"", BadUserId, "B"}

RequestContents == {"", "text"}

\* PostHandler.CreatePost up to the event: the checks of the request and the
\* new post with its fresh id
PostHandlerCreatePost(userId, content) ==
    /\ calc.fn = "CreatePost" /\ calc.stage = "idle"
    /\ calc.calls < MaxPosts
    /\ LET begun == [calc EXCEPT !.calls = @ + 1, !.postID = 0]
           reject(msg) == [begun EXCEPT !.code = "InvalidArgument", !.msg = msg]
       IN  calc' = IF userId = "" THEN reject("user_id is required")
                   ELSE IF content = "" THEN reject("content is required")
                   ELSE IF ParseFails(userId) THEN reject("invalid user_id format")
                   ELSE [begun EXCEPT !.stage = "publish", !.postID = calc.calls + 1,
                                      !.code = "", !.msg = ""]
    /\ UNCHANGED <<now, posts, follows, cache, reads, wbs, last, fanVars, cleanups,
                   keyVars, svcVars>>

\* nats.Client.Publish of the event, unless NATS fails
Publish(fo, natsFails) ==
    IF natsFails THEN fo ELSE [fo EXCEPT !.events = @ \cup {fo.postID}]

\* h.publisher.PublishPostCreated(event): an error is logged

PublishPostCreated(natsFails) ==
    /\ calc.fn = "CreatePost" /\ calc.stage = "publish"
    /\ calc' = [Publish(calc, natsFails) EXCEPT !.stage = "create"]
    /\ UNCHANGED <<now, posts, follows, cache, reads, wbs, last, fanVars, cleanups,
                   keyVars, svcVars>>

\* h.repo.Create(ctx, post) and the return of CreatePost
RepoCreate(dbFails) ==
    /\ calc.fn = "CreatePost" /\ calc.stage = "create"
    /\ calc' = IF dbFails
               THEN [calc EXCEPT !.stage = "idle", !.code = "Internal",
                                 !.msg = "failed to create post",
                                 !.failed = @ \cup {calc.postID}]
               ELSE [calc EXCEPT !.stage = "idle", !.code = "OK",
                                 !.rows = @ \cup {calc.postID}]
    /\ UNCHANGED <<now, posts, follows, cache, reads, wbs, last, fanVars, cleanups,
                   keyVars, svcVars>>

NextPublish ==
    \/ \E u \in RequestUserIds, c \in RequestContents : PostHandlerCreatePost(u, c)
    \/ \E fails \in BOOLEAN : PublishPostCreated(fails)
    \/ \E fails \in BOOLEAN : RepoCreate(fails)

SpecPublish == InitPublish /\ [][NextPublish]_vars

\* ------------------------------------------------------------ like-service
\* an error value: errors.New makes a new value at every call, told apart
\* here by the place of the call; Error() is its text
ErrorsNew(text, site) == [text |-> text, site |-> site]

NoError == ErrorsNew("", "")

\* errors.Is for errors that wrap nothing: the same value
ErrorsIs(err, target) == err = target

LikePostIds == {"", BadUserId, "p1", "p2"}

LikeUserIds == {"", BadUserId, "A", "B"}

\* the like service between calls: rows is like_service_likes, the other
\* fields hold the last request and its response
NoLikeCalls ==
    [fn |-> "likes", calls |-> 0, rows |-> {}, op |-> "", post |-> "", user |-> "",
     dbFails |-> FALSE, code |-> "", success |-> FALSE, msg |-> ""]

InitLikeRpc == Fresh /\ calc = NoLikeCalls /\ counters = NewPostCounts

\* the checks LikePost and UnlikePost make of the request ("" if it passes)
LikeRequestError(postId, userId) ==
    IF postId = "" THEN "post_id is required"
    ELSE IF userId = "" THEN "user_id is required"
    ELSE IF postId \notin {"p1", "p2"} THEN "invalid post_id format"
    ELSE IF ParseFails(userId) THEN "invalid user_id format"
    ELSE ""

Liked(rows, postID, userID) ==
    {row \in rows : row.post_id = postID /\ row.user_id = userID}

\* likeRepository.CreateLike: INSERT ... ON CONFLICT (post_id, user_id) DO
\* NOTHING, and an error when no row was affected
CreateLike(rows, likeID, postID, userID, dbFails) ==
    IF dbFails THEN [rows |-> rows, err |-> ErrorsNew("failed to create like", "CreateLike")]
    ELSE IF Liked(rows, postID, userID) # {}
    THEN [rows |-> rows, err |-> ErrorsNew("like already exists", "CreateLike")]
    ELSE [rows |-> rows \cup {[id |-> likeID, post_id |-> postID, user_id |-> userID]},
          err |-> NoError]

\* likeRepository.DeleteLike: DELETE ... WHERE post_id = $1 AND user_id = $2,
\* and an error when no row was affected
DeleteLike(rows, postID, userID, dbFails) ==
    IF dbFails THEN [rows |-> rows, err |-> ErrorsNew("failed to delete like", "DeleteLike")]
    ELSE IF Liked(rows, postID, userID) = {}
    THEN [rows |-> rows, err |-> ErrorsNew("like not found", "DeleteLike")]
    ELSE [rows |-> rows \ Liked(rows, postID, userID), err |-> NoError]

LikeCall(op, postId, userId, dbFails, rows, code, success, msg) ==
    /\ calc.fn = "likes" /\ calc.calls < MaxOps
    /\ calc' = [calc EXCEPT !.calls = @ + 1, !.op = op, !.post = postId,
                            !.user = userId, !.dbFails = dbFails, !.rows = rows,
                            !.code = code, !.success = success, !.msg = msg]
    /\ UNCHANGED <<now, posts, follows, cache, reads, wbs, last, fanVars, cleanups,
                   keyVars, svcVars>>

\* LikeHandler.LikePost
LikePost(postId, userId, dbFails) ==
    LET invalid == LikeRequestError(postId, userId)
        made == CreateLike(calc.rows, calc.calls + 1, postId, userId, dbFails)
    IN  IF invalid # ""
        THEN LikeCall("LikePost", postId, userId, FALSE, calc.rows,
                      "InvalidArgument", FALSE, invalid)
        ELSE IF made.err = NoError
        THEN LikeCall("LikePost", postId, userId, dbFails, made.rows,
                      "OK", TRUE, "Post liked successfully")
        ELSE IF made.err.text = "like already exists"
        THEN LikeCall("LikePost", postId, userId, dbFails, made.rows,
                      "OK", TRUE, "Post already liked")
        ELSE LikeCall("LikePost", postId, userId, dbFails, made.rows,
                      "Internal", FALSE, "failed to like post")

\* LikeHandler.UnlikePost
UnlikePost(postId, userId, dbFails) ==
    LET invalid == LikeRequestError(postId, userId)
        gone == DeleteLike(calc.rows, postId, userId, dbFails)
    IN  IF invalid # ""
        THEN LikeCall("UnlikePost", postId, userId, FALSE, calc.rows,
                      "InvalidArgument", FALSE, invalid)
        ELSE IF gone.err = NoError
        THEN LikeCall("UnlikePost", postId, userId, dbFails, gone.rows,
                      "OK", TRUE, "Post unliked successfully")
        ELSE IF ErrorsIs(gone.err, ErrorsNew("like not found", "UnlikePost"))
        THEN LikeCall("UnlikePost", postId, userId, dbFails, gone.rows,
                      "OK", TRUE, "Like already removed")
        ELSE LikeCall("UnlikePost", postId, userId, dbFails, gone.rows,
                      "Internal", FALSE, "failed to unlike post")

NextLikeRpc ==
    \/ \E p \in LikePostIds, u \in LikeUserIds, fails \in BOOLEAN : LikePost(p, u, fails)
    \/ \E p \in LikePostIds, u \in LikeUserIds, fails \in BOOLEAN : UnlikePost(p, u, fails)

SpecLikeRpc == InitLikeRpc /\ [][NextLikeRpc]_vars

SpecScore == InitScore /\ [][NextScore]_vars

\* One fan-out for the author whose followers outnumber the semaphore's slots;
\* the invalidation of one of them may fail.
Flaky == "F01"

NextPool ==
    \/ CreatePost(Star, 0, 0)
    \/ \E fails \in BOOLEAN : FanOutPost(1, 1, Star, fails)
    \/ \E fails \in BOOLEAN : BulkInsertFeedItems(1, fails)
    \/ \E u \in Crowd : InvalidateAcquire(1, u)
    \/ \E u \in Crowd : InvalidateUserFeed(1, u, FALSE)
    \/ InvalidateUserFeed(1, Flaky, TRUE)

SpecPool == Init /\ [][NextPool]_vars

\* One fan-out for the same author, whose followers may be ten or eleven.  The goroutines of invalidateFollowersCaches differ only in their
\* user: they reach the semaphore in the order of the list, and finish in any
\* order.  They are scheduled, and every InvalidateUserFeed call returns.
Leavers == {<<"F11", Star>>}

Arrivals ==
    <<"F01", "F02", "F03", "F04", "F05", "F06", "F07", "F08", "F09", "F10", "F11">>

PoolAcquires ==
    \E i \in DOMAIN Arrivals :
        /\ \A j \in 1..(i - 1) : fanouts[1].inv[Arrivals[j]] # "waiting"
        /\ InvalidateAcquire(1, Arrivals[i])

PoolInvalidates ==
    \/ \E u \in Crowd : InvalidateUserFeed(1, u, FALSE)
    \/ InvalidateUserFeed(1, Flaky, TRUE)

NextDrain ==
    \/ CreatePost(Star, 0, 0)
    \/ \E e \in Leavers : Unfollow(e)
    \/ \E fails \in BOOLEAN : FanOutPost(1, 1, Star, fails)
    \/ \E fails \in BOOLEAN : BulkInsertFeedItems(1, fails)
    \/ PoolAcquires
    \/ PoolInvalidates

SpecDrain ==
    Init /\ [][NextDrain]_vars /\ WF_vars(PoolAcquires) /\ WF_vars(PoolInvalidates)

\* ------------------------------------------------------------ read claims
Min(a, b) == IF a < b THEN a ELSE b

Items(rd) == {rd.page.Edges[i].Node.id : i \in DOMAIN rd.page.Edges}

\* no two candidate posts of the user tie in creation day or in feed score
NoTies(user, store, day) ==
    \A p, q \in Candidates(user, store, day) :
        p # q => /\ store[p].created_at # store[q].created_at
                 /\ feed_score(store[p], day) # feed_score(store[q], day)

\* rd answers a request sent with the end cursor of the page prev, for the same
\* user and page size
Continues(rd, prev) ==
    /\ rd.pc = "done" /\ rd.code = "OK" /\ prev.code = "OK"
    /\ rd.user = prev.user /\ rd.limit = prev.limit
    /\ prev.page.EndCursor # Nil /\ rd.after = prev.page.EndCursor

\* C1: over a candidate feed of N distinct posts that does not change, the page
\* read with the end cursor of the first page (which had hasNextPage) shares no
\* post with the first page and holds exactly min(L, N - L) posts.
C1_PaginationExact ==
    \A r \in Slots :
        LET rd == reads[r]
            prev == rd.prev[1]
            N == Cardinality(Candidates(rd.user, rd.store, rd.day))
        IN  (/\ rd.prev # Nil
             /\ Continues(rd, prev)
             /\ prev.after = Nil /\ prev.page.HasNextPage
             /\ rd.store = prev.store /\ rd.day = prev.day
             /\ NoTies(rd.user, rd.store, rd.day))
            => /\ Items(rd) \cap Items(prev) = {}
               /\ Len(rd.page.Edges) = Min(rd.limit, N - Len(prev.page.Edges))

\* C5: a first page served by the fallback build and, once its write-back is
\* the whole content of the cache and nothing else has changed, the same
\* request served from the cache are the same page.
C5_MissThenHitIdentical ==
    \A r \in Slots :
        LET rd == reads[r]
            prev == rd.prev[1]
        IN  (/\ rd.prev # Nil
             /\ rd.pc = "done" /\ rd.code = "OK" /\ prev.code = "OK"
             /\ rd.user = prev.user /\ rd.limit = prev.limit
             /\ prev.after = Nil /\ rd.after = Nil
             /\ prev.path = "build" /\ rd.path = "cache"
             /\ rd.zset = ZAddAll(EmptyZSet, prev.rows)
             /\ rd.store = prev.store /\ rd.day = prev.day
             /\ NoTies(rd.user, rd.store, rd.day))
            => rd.page = prev.page

\* C8: after new posts have been added, a read at the end cursor of a page
\* received before returns none of that page's posts again and starts with the
\* post that followed the cursor when the page was served.
C8_CursorStableUnderFanIn ==
    \A r \in Slots :
        LET rd == reads[r]
            prev == rd.prev[1]
        IN  (/\ rd.prev # Nil
             /\ Continues(rd, prev)
             /\ prev.page.HasNextPage
             /\ DOMAIN prev.store # DOMAIN rd.store
             /\ DOMAIN prev.store \subseteq DOMAIN rd.store)
            => /\ Items(rd) \cap Items(prev) = {}
               /\ Len(rd.page.Edges) > 0
               /\ rd.page.Edges[1].Node.id = prev.rows[prev.limit + 1].id

Malformed(after) == after # Nil /\ after[1] # <<>> /\ decodeCursor(after[1]).err

\* C6: a read whose cache lookup failed ends without error unless the build
\* itself failed, and its page is the page of rows built from the post store.
C6_CacheDegradation ==
    \A r \in Slots :
        LET rd == reads[r]
        IN  (Done(r) /\ rd.cacheErr # "")
            => \/ rd.err = "failed to build feed"
               \/ /\ rd.err = "" /\ rd.code = "OK" /\ rd.path = "build"
                  /\ rd.rows \in BuildQuery(rd.user, rd.limit + 1, rd.store, rd.day)
                  /\ rd.page = buildPostConnection(rd.rows, rd.limit, rd.offset)

\* a read that found the cache backend unreachable and still returned posts
C6_Witness ==
    \E r \in Slots :
        /\ Done(r) /\ reads[r].cacheErr = "failed to get cached feed"
        /\ reads[r].code = "OK" /\ Len(reads[r].page.Edges) > 0

\* C7: a read sent with a malformed cursor ends with the invalid-argument
\* status, having looked up no cache, built no feed and started no write-back.
C7_MalformedCursorIsClientError ==
    \A r \in Slots :
        (Done(r) /\ reads[r].user \in Users /\ Malformed(reads[r].after))
        => /\ reads[r].code = "InvalidArgument"
           /\ reads[r].path = "" /\ reads[r].cacheErr = ""
           /\ reads[r].rows = <<>>

\* ------------------------------------------------------------ fan-out claims
EntriesFor(table, postID) == {row \in table : row.post_id = postID}

EntriesOf(table, userID, postID) ==
    {row \in table : row.user_id = userID /\ row.post_id = postID}

\* call t makes its bulk insert in this step and the insert succeeds
InsertsNow(t) ==
    /\ fanouts[t].pc = "insert"
    /\ fanouts'[t].pc = "returned" /\ fanouts'[t].err = ""

\* another call with the same post, author and follower set has succeeded, and
\* each of its followers has its entry
FannedOutBefore(t) ==
    /\ \E q \in Calls :
          /\ q # t /\ fanouts[q].pc = "returned" /\ fanouts[q].err = ""
          /\ fanouts[q].postID = fanouts[t].postID
          /\ fanouts[q].authorID = fanouts[t].authorID
          /\ fanouts[q].followerIDs = fanouts[t].followerIDs
    /\ \A f \in fanouts[t].followerIDs :
          EntriesOf(feedIdx, f, fanouts[t].postID) # {}

\* C2: a second successful FanOutPost of the same post for the same followers
\* leaves the feed-index rows as they were, one row per follower.
C2_FanOutIdempotent ==
    [][\A t \in Calls :
          (InsertsNow(t) /\ FannedOutBefore(t))
          => /\ feedIdx' = feedIdx
             /\ \A f \in fanouts[t].followerIDs :
                   Cardinality(EntriesOf(feedIdx', f, fanouts[t].postID)) = 1]_vars

\* two calls for the same post and the same two followers have both succeeded
C2_Witness ==
    \E t, q \in Calls :
        /\ t # q
        /\ fanouts[t].pc = "returned" /\ fanouts[t].err = ""
        /\ fanouts[q].pc = "returned" /\ fanouts[q].err = ""
        /\ fanouts[t].postID = fanouts[q].postID
        /\ fanouts[t].followerIDs = fanouts[q].followerIDs
        /\ Cardinality(fanouts[t].followerIDs) = 2
        /\ fanouts[q].conflict
        /\ Cardinality(EntriesFor(feedIdx, fanouts[t].postID)) = 2

\* C3: the feed index never holds two rows for one (follower, post) pair, and a
\* bulk insert that met a conflict and no fault returned no error.
C3_UniquePairs ==
    /\ \A a, b \in feedIdx :
          (a.user_id = b.user_id /\ a.post_id = b.post_id) => a = b
    /\ \A t \in Calls :
          (fanouts[t].pc = "returned" /\ fanouts[t].conflict) => fanouts[t].err = ""

\* a bulk insert met a row put there by InsertFeedItem and the row count shows
\* that nothing was added twice
C3_Witness ==
    \E t \in Calls :
        /\ fanouts[t].pc = "returned" /\ fanouts[t].conflict
        /\ \E row \in feedIdx :
              /\ row.id.call > MaxFanOuts
              /\ row.post_id = fanouts[t].postID
              /\ row.user_id \in fanouts[t].followerIDs

\* C4: a successful bulk insert for a post that had no row leaves exactly one
\* row for each follower the call read, none for anyone else, all for the post.
C4_FanOutComplete ==
    [][\A t \in Calls :
          (InsertsNow(t) /\ EntriesFor(feedIdx, fanouts[t].postID) = {})
          => LET after == EntriesFor(feedIdx', fanouts[t].postID)
                 N == Cardinality(fanouts[t].followerIDs)
             IN  /\ N >= 1
                 /\ Cardinality(after) = N
                 /\ {row.user_id : row \in after} = fanouts[t].followerIDs
                 /\ feedIdx' \ feedIdx = after]_vars

\* a call fanned a post out to two followers and both rows are its own
C4_Witness ==
    \E t \in Calls :
        /\ fanouts[t].pc = "returned" /\ fanouts[t].err = ""
        /\ ~fanouts[t].conflict
        /\ Cardinality(fanouts[t].followerIDs) = 2
        /\ Cardinality({row \in feedIdx : row.id.call = t}) = 2

Started(t) == \E u \in Users : fanouts[t].inv[u] # "none"

\* C9: a call that failed to read the followers returned an error, inserted no
\* row and started no invalidation; one whose bulk insert failed returned an
\* error, left no row of its own and started no invalidation.
C9_FanOutFailure ==
    \A t \in Calls :
        /\ fanouts[t].err = "failed to get followers"
           => /\ fanouts[t].pc = "returned"
              /\ {row \in feedIdx : row.id.call = t} = {}
              /\ ~Started(t)
        /\ fanouts[t].fault
           => /\ fanouts[t].pc = "returned"
              /\ fanouts[t].err = "failed to fan out post"
              /\ {row \in feedIdx : row.id.call = t} = {}
              /\ ~Started(t)

\* a bulk insert for two followers failed
C9_Witness ==
    \E t \in Calls :
        /\ fanouts[t].fault /\ Cardinality(fanouts[t].followerIDs) = 2

\* the invalidation of follower u's cache by call t fails in this step
InvalidationFails(t, u) ==
    fanouts[t].inv[u] = "running" /\ fanouts'[t].inv[u] = "failed"

\* C10: a failing invalidation changes neither the call's result nor any
\* feed-index row nor another follower's invalidation; and once one has
\* failed the call's result is still success and every follower's
\* invalidation is waiting, running or over.
C10_InvalidationFailureHarmless ==
    /\ [][\A t \in Calls : \A u \in Users :
             InvalidationFails(t, u)
             => /\ feedIdx' = feedIdx
                /\ fanouts'[t].err = fanouts[t].err
                /\ fanouts'[t].pc = fanouts[t].pc
                /\ \A v \in Users \ {u} :
                      fanouts'[t].inv[v] = fanouts[t].inv[v]]_vars
    /\ [](\A t \in Calls :
             (\E u \in Users : fanouts[t].inv[u] = "failed")
             => /\ fanouts[t].pc = "returned" /\ fanouts[t].err = ""
                /\ \A f \in fanouts[t].followerIDs :
                      fanouts[t].inv[f] \in {"waiting", "running", "ok", "failed"})

\* one follower's invalidation failed and another's ran to success
C10_Witness ==
    \E t \in Calls : \E u, v \in Users :
        /\ u # v
        /\ fanouts[t].inv[u] = "failed" /\ fanouts[t].inv[v] = "ok"
        /\ Cardinality(EntriesFor(feedIdx, fanouts[t].postID)) = 2

\* C11: at no instant does one invalidateFollowersCaches call have more than
\* ten InvalidateUserFeed calls in progress, however many followers it has.
C11_BoundedInvalidation ==
    \A t \in Calls : Cardinality(Running(t)) <= SemCap

\* ten invalidations are in progress and an eleventh follower is kept waiting
C11_Witness ==
    \E t \in Calls :
        /\ Cardinality(fanouts[t].followerIDs) > SemCap
        /\ Cardinality(Running(t)) = SemCap
        /\ \E u \in fanouts[t].followerIDs : fanouts[t].inv[u] = "waiting"

\* C12: the invalidations of a call start only in the step in which its bulk
\* insert succeeds, with a row in place for every follower, and in the step in
\* which FanOutPost returns none of its invalidations has run yet.
C12_InsertBeforeInvalidate ==
    [][\A t \in Calls :
          /\ (~Started(t) /\ Started(t)')
             => /\ InsertsNow(t)
                /\ \A f \in fanouts[t].followerIDs :
                      EntriesOf(feedIdx', f, fanouts[t].postID) # {}
          /\ (fanouts[t].pc # "returned" /\ fanouts'[t].pc = "returned")
             => \A u \in Users : fanouts'[t].inv[u] \in {"none", "waiting"}]_vars

\* FanOutPost has returned success while one invalidation is in progress and
\* another has not begun
C12_Witness ==
    \E t \in Calls : \E u, v \in Users :
        /\ fanouts[t].pc = "returned" /\ fanouts[t].err = ""
        /\ fanouts[t].inv[u] = "running" /\ fanouts[t].inv[v] = "waiting"

\* the write-back GetFeed started for the request in slot r, still to run
PendingFor(pending, r) == {w \in pending : w.req = r /\ w.scope = "open"}

\* C13: a read served by the fallback build has its page from the built rows
\* alone, returns while its write-back is still to run, is not changed by the
\* write-back running (well or badly), and no end of the request, cancellation
\* included, reaches the write-back's context.
C13_WriteBackDetached ==
    /\ [](\A r \in Slots :
             (Done(r) /\ reads[r].path = "build" /\ reads[r].code = "OK")
             => /\ reads[r].err = ""
                /\ reads[r].page =
                      buildPostConnection(reads[r].rows, reads[r].limit,
                                          reads[r].offset))
    /\ [](\A w \in wbs : ~ContextDone(w))
    /\ [][\A r \in Slots :
             /\ (~Done(r) /\ Done(r)' /\ reads'[r].path = "build"
                          /\ reads'[r].code = "OK")
                => PendingFor(wbs', r) # {}
             /\ (\E w \in wbs : wbs' = wbs \ {w})
                => (reads' = reads /\ last' = last)
             /\ \A w \in wbs :
                (Done(r) /\ ~Done(r)' /\ w.req = r)
                => \E v \in wbs' :
                      /\ v.user = w.user /\ v.rows = w.rows
                      /\ v.ctx = w.ctx /\ ~ContextDone(v)]_vars

\* the request was cancelled and its write-back, with rows to store, is still
\* to run under a context that is not done
C13_Witness ==
    \E w \in wbs :
        /\ w.scope = "cancelled" /\ ~ContextDone(w)
        /\ Len(w.rows) > 0

\* C14: a read whose fallback build failed ends with the error, carries no
\* page and no rows, is reported with the internal code, and the step in which
\* it fails starts no write-back.
C14_BuildFailureSurfaced ==
    /\ [](\A r \in Slots :
             reads[r].err = "failed to build feed"
             => /\ Done(r) /\ reads[r].code = "Internal"
                /\ reads[r].page = NoPage /\ reads[r].rows = <<>>
                /\ PendingFor(wbs, r) = {})
    /\ [][\A r \in Slots :
             (reads[r].pc = "build" /\ Done(r)' /\ reads'[r].path # "build")
             => (wbs' = wbs /\ cache' = cache
                 /\ reads'[r].err = "failed to build feed")]_vars

\* the cache lookup found nothing and the build then failed
C14_Witness ==
    \E r \in Slots :
        /\ reads[r].err = "failed to build feed"
        /\ reads[r].cacheErr = "cache miss"

\* C15: a response whose like lookup failed carries the whole page, and the
\* like flag of each of its posts is absent.
C15_LikeFailureIsUnknown ==
    (last # Nil /\ last[1].likeErr # "")
    => /\ last[1].code = "OK"
       /\ Len(last[1].page.Edges) > 0
       /\ DOMAIN last[1].isLiked = DOMAIN last[1].page.Edges
       /\ \A i \in DOMAIN last[1].isLiked : last[1].isLiked[i] = Nil

\* a run of the cleanup job ends well in this step
CleanupRuns == cleanups'.runs = cleanups.runs + 1 /\ ~cleanups'.failed

\* C16: a cleanup run with horizon H deletes every row created at or before H
\* and keeps every row created after H.
C16_CleanupBoundary ==
    [][CleanupRuns
       => \A row \in feedIdx :
             /\ row.created_at <= cleanups'.olderThan => row \notin feedIdx'
             /\ row.created_at > cleanups'.olderThan => row \in feedIdx']_vars

\* the days on which the job may run
Days == 0..(MaxTime + RetentionDays)

\* C17: cleaning what a run with the same horizon has cleaned changes nothing,
\* a failed run changes nothing, and no step removes a row created within the
\* retention period before the present.
C17_CleanupIdempotentSafe ==
    /\ [](\A d \in Days :
             CleanupRows(CleanupRows(feedIdx, OlderThan(d)), OlderThan(d))
                = CleanupRows(feedIdx, OlderThan(d)))
    /\ [][/\ CleanupRuns
             => CleanupRows(feedIdx', cleanups'.olderThan) = feedIdx'
          /\ (cleanups'.runs = cleanups.runs + 1 /\ cleanups'.failed)
             => feedIdx' = feedIdx
          /\ (CleanupRuns /\ cleanups'.again) => feedIdx' = feedIdx
          /\ \A row \in feedIdx \ feedIdx' :
                row.created_at < now - RetentionDays]_vars

\* a second run with the horizon of the first has ended; the rows of one call
\* are gone and the rows another call wrote within the retention period remain
C17_Witness ==
    /\ cleanups.runs = 2 /\ cleanups.again /\ ~cleanups.failed
    /\ \E t, q \in Calls :
          /\ fanouts[t].pc = "returned" /\ fanouts[t].err = ""
          /\ ~fanouts[t].conflict /\ fanouts[t].followerIDs # {}
          /\ {row \in feedIdx : row.id.call = t} = {}
          /\ \E row \in feedIdx :
                row.id.call = q /\ row.created_at >= now - RetentionDays

\* C18: a feed cursor decodes to the offset it was issued for, and a keyset
\* cursor of the post store decodes to the timestamp and the id it was issued
\* for.
C18_CursorRoundTrip ==
    calc.stage = "decoded"
    => /\ calc.fn = "encodeCursor" => (~calc.outErr /\ calc.outN = calc.n)
       /\ calc.fn = "PostEncodeCursor"
          => (~calc.outErr /\ calc.outTime = calc.time /\ calc.outId = calc.id)

\* the cursor is what encodeCursor gives for some offset
Issued(cursor) == \E n \in 0..MaxCursorOffset : cursor = encodeCursor(n)

\* C19: a client's cursor that decodeCursor accepts is the encoding of a
\* non-negative integer, and GetFeed goes on to the cache only with a cursor
\* of that kind and an offset that is not negative.
C19_DecoderRejectsMalformed ==
    /\ (calc.fn = "decodeCursor" /\ calc.stage = "decoded" /\ ~calc.outErr)
       => (Issued(calc.cursor) /\ calc.outN >= 0)
    /\ \A r \in Slots :
          (reads[r].pc = "cache" /\ reads[r].after # Nil)
          => (Issued(reads[r].after[1]) /\ reads[r].offset >= 0)

\* post a is at least as recent as b with the same counts, or was created at
\* the same time with at least as many likes (comments equal) or comments
\* (likes equal)
AtLeastAsGood(a, b) ==
    \/ /\ a.created_at >= b.created_at
       /\ a.likes_count = b.likes_count /\ a.comments_count = b.comments_count
    \/ /\ a.created_at = b.created_at
       /\ \/ a.likes_count >= b.likes_count /\ a.comments_count = b.comments_count
          \/ a.comments_count >= b.comments_count /\ a.likes_count = b.likes_count

BuildsNow(r) == reads[r].pc = "build" /\ reads'[r].path = "build"

\* C21: the rows BuildFeedForUser returns are at most `limit` stored posts, no
\* post twice, each by an author the user follows over an edge that is not
\* soft-deleted, each created within the last 30 days, in descending order of
\* feed score and, at equal score, of creation time.
C21_BuildContract ==
    [][\A r \in Slots :
          BuildsNow(r)
          => LET rows == reads'[r].rows
                 user == reads[r].user
                 limit == reads[r].limit + 1
             IN  /\ Len(rows) <= limit
                 /\ \A i \in DOMAIN rows :
                       /\ rows[i].id \in DOMAIN posts
                       /\ rows[i] = PostRow(posts, rows[i].id)
                       /\ <<user, rows[i].user_id>> \in DOMAIN follows
                       /\ ~follows[<<user, rows[i].user_id>>]
                       /\ rows[i].created_at > now - WindowDays
                       /\ rows[i].created_at <= now
                 /\ \A i, j \in DOMAIN rows :
                       i < j
                       => /\ rows[i].id # rows[j].id
                          /\ \/ feed_score(rows[i], now) > feed_score(rows[j], now)
                             \/ /\ feed_score(rows[i], now) = feed_score(rows[j], now)
                                /\ rows[i].created_at >= rows[j].created_at]_vars

\* a build cut at its limit, with more posts of the followed author in the
\* window than it returned, whose first row is older than its second
C21_Witness ==
    \E r \in Slots :
        /\ Done(r) /\ reads[r].path = "build"
        /\ Len(reads[r].rows) = reads[r].limit + 1
        /\ reads[r].rows[1].created_at < reads[r].rows[2].created_at
        /\ Cardinality({p \in DOMAIN reads[r].store :
                           /\ reads[r].store[p].user_id = "B"
                           /\ reads[r].store[p].created_at
                                 > reads[r].day - WindowDays})
              > Len(reads[r].rows)

\* the rank of member m of a sorted set, highest score first: the number of
\* members before it
Rank(zset, m) == Cardinality({n \in DOMAIN zset : ZBefore(zset, n, m)})

\* the members at ranks lo, lo + 1, ... below hi
AtRanks(zset, lo, hi) ==
    {m \in DOMAIN zset : Rank(zset, m) >= lo /\ Rank(zset, m) < hi}

\* C22: GetCachedFeed(user, limit, offset) reads the members at ranks offset up
\* to offset + limit of the user's set; with none there (set absent, empty or
\* shorter than offset) it returns the cache-miss error and no posts, otherwise
\* the stored posts of exactly those ids, newest first.
C22_CachedFeedContract ==
    [][\A r \in Slots :
          LET rd == reads[r]
              want == AtRanks(cache[rd.user], rd.offset, rd.offset + (rd.limit + 1))
          IN  /\ (rd.pc = "cache" /\ reads'[r].pc # "cache")
                 => IF want = {}
                    THEN /\ reads'[r].pc = "build"
                         /\ reads'[r].cacheErr = "cache miss"
                         /\ reads'[r].rows = <<>>
                    ELSE /\ reads'[r].pc = "hydrate"
                         /\ Range(reads'[r].ids) = want
                         /\ Len(reads'[r].ids) = Cardinality(want)
              /\ (rd.pc = "hydrate" /\ reads'[r].pc # "hydrate")
                 => LET rows == reads'[r].rows
                    IN  /\ Done(r)' /\ reads'[r].path = "cache"
                        /\ reads'[r].cacheErr = ""
                        /\ Len(rows) = Len(rd.ids)
                        /\ {rows[i].id : i \in DOMAIN rows} = Range(rd.ids)
                        /\ \A i \in DOMAIN rows : rows[i] = PostRow(posts, rows[i].id)
                        /\ \A i, j \in DOMAIN rows :
                              i < j => rows[i].created_at >= rows[j].created_at]_vars

\* a read at an offset past the top was served the two posts at the ranks from
\* that offset on, out of a set of three
C22_Witness ==
    \E r \in Slots :
        /\ Done(r) /\ reads[r].path = "cache" /\ reads[r].offset = 1
        /\ Cardinality(DOMAIN reads[r].zset) = 3
        /\ Len(reads[r].rows) = 2
        /\ {reads[r].rows[i].id : i \in DOMAIN reads[r].rows}
              = AtRanks(reads[r].zset, 1, 3)


Posted(rows) == {rows[i].id : i \in DOMAIN rows}

\* what a successful CacheFeedItems(user, rows) with rows to store leaves
CachedAfter(user, rows) ==
    /\ DOMAIN cache'[user] = DOMAIN cache[user] \cup Posted(rows)
    /\ \A i \in DOMAIN rows :
          cache'[user][rows[i].id] = rows[i].created_at * SecondsPerDay
    /\ \A m \in DOMAIN cache[user] \ Posted(rows) :
          cache'[user][m] = cache[user][m]
    /\ ttl'[user] = OneHour

\* C23: CacheFeedItems with rows, when it succeeds, leaves every given id in
\* the user's set with its creation time in epoch seconds as score, keeps the
\* other members with their scores and sets the key's time-to-live to one
\* hour; with no rows it succeeds and leaves the set and its time-to-live as
\* they were.  A write-back, whose result nobody reads, does that or nothing.
C23_CacheFeedItemsContract ==
    [][/\ \A t \in 1..MaxRefreshes :
             (refreshes[t].pc = "cache" /\ refreshes'[t].pc = "returned")
             => LET user == refreshes[t].user
                    rows == refreshes[t].rows
                IN  /\ rows = <<>>
                       => /\ refreshes'[t].err = ""
                          /\ cache' = cache /\ ttl' = ttl
                    /\ (rows # <<>> /\ refreshes'[t].err = "")
                       => CachedAfter(user, rows)
        /\ \A w \in wbs :
             wbs' = wbs \ {w}
             => /\ w.rows = <<>> => (cache' = cache /\ ttl' = ttl)
                /\ w.rows # <<>>
                   => \/ cache' = cache /\ ttl' = ttl
                      \/ CachedAfter(w.user, w.rows)]_vars

\* a refresh has stored its rows with success beside a member it did not
\* bring, and the key has its full hour
C23_Witness ==
    \E t \in 1..MaxRefreshes :
        LET user == refreshes[t].user
        IN  /\ refreshes[t].pc = "returned" /\ refreshes[t].err = ""
            /\ refreshes[t].rows # <<>>
            /\ Posted(refreshes[t].rows) \subseteq DOMAIN cache[user]
            /\ DOMAIN cache[user] \ Posted(refreshes[t].rows) # {}
            /\ ttl[user] = OneHour

\* the step is a successful InvalidateUserFeed for user u: one of a fan-out's
\* goroutines or the first call of a refresh
InvalidatesNow(u) ==
    \/ \E t \in Calls : fanouts[t].inv[u] = "running" /\ fanouts'[t].inv[u] = "ok"
    \/ \E t \in 1..MaxRefreshes :
          /\ refreshes[t].pc = "idle" /\ refreshes'[t].pc = "build"
          /\ refreshes'[t].user = u

\* the step belongs to a feed operation for user u: a step of a GetFeed, a
\* write-back, an invalidation or a step of a refresh
OperatesFor(u) ==
    \/ \E r \in Slots :
          reads'[r] # reads[r] /\ (reads[r].user = u \/ reads'[r].user = u)
    \/ \E w \in wbs : wbs' = wbs \ {w} /\ w.user = u
    \/ \E t \in Calls : fanouts[t].inv[u] = "running" /\ fanouts'[t].inv[u] # "running"
    \/ \E t \in 1..MaxRefreshes :
          refreshes'[t] # refreshes[t] /\ refreshes'[t].user = u

\* C24: a successful InvalidateUserFeed leaves the user without a cached set
\* and changes neither another user's set nor any feed-index row; and a step
\* of a feed operation for one user changes no other user's set.
C24_CacheFrame ==
    [][\A u \in Users :
          /\ InvalidatesNow(u)
             => /\ cache'[u] = EmptyZSet /\ ttl'[u] = 0
                /\ \A v \in Users \ {u} : cache'[v] = cache[v] /\ ttl'[v] = ttl[v]
                /\ feedIdx' = feedIdx
          /\ OperatesFor(u)
             => \A v \in Users \ {u} : cache'[v] = cache[v] /\ ttl'[v] = ttl[v]]_vars

\* the fan-out's invalidation has emptied one follower's set while the other
\* follower's set, invalidated before and filled again, holds its posts
C24_Witness ==
    \E t \in Calls :
        /\ fanouts[t].inv["A"] = "ok" /\ fanouts[t].inv["C"] = "ok"
        /\ cache["A"] = EmptyZSet
        /\ DOMAIN cache["C"] # {}
        /\ feedIdx # {}

\* C25: a refresh invalidates, then builds with limit 100, then stores; it
\* returns success only from the store; and when nothing else has written the
\* user's key, a successful refresh leaves in the set exactly the ids its
\* build returned, and no set when the build returned none.
C25_RefreshRebuilds ==
    [][\A t \in RefreshCalls :
          LET user == refreshes'[t].user
          IN  /\ (refreshes[t].pc = "idle" /\ refreshes'[t].pc # "idle")
                 => /\ refreshes'[t].pc \in {"build", "returned"}
                    /\ refreshes'[t].pc = "build"
                       => cache'[user] = EmptyZSet /\ ttl'[user] = 0
                    /\ refreshes'[t].pc = "returned" => refreshes'[t].err # ""
              /\ (refreshes[t].pc = "build" /\ refreshes'[t].pc # "build")
                 => /\ refreshes'[t].pc \in {"cache", "returned"}
                    /\ cache' = cache
                    /\ refreshes'[t].pc = "cache"
                       => /\ refreshes'[t].rows
                                \in BuildQuery(user, RefreshLimit, posts, now)
                          /\ Len(refreshes'[t].rows) <= RefreshLimit
                    /\ refreshes'[t].pc = "returned" => refreshes'[t].err # ""
              /\ (refreshes[t].pc = "cache" /\ refreshes'[t].pc # "cache")
                 => /\ refreshes'[t].pc = "returned"
                    /\ refreshes'[t].err = ""
                       => /\ DOMAIN cache'[user] = Posted(refreshes[t].rows)
                          /\ refreshes[t].rows = <<>>
                             => cache'[user] = EmptyZSet /\ ttl'[user] = 0]_vars

\* a refresh stored the posts of a followed author and, the follow ended, the
\* next refresh built nothing and left no set
C25_Witness ==
    /\ refreshes[1].pc = "returned" /\ refreshes[1].err = ""
    /\ Len(refreshes[1].rows) = 2
    /\ refreshes[2].pc = "returned" /\ refreshes[2].err = ""
    /\ refreshes[2].rows = <<>>
    /\ cache["A"] = EmptyZSet
    /\ now = 0

\* the fan-out of post FannedOut has stored its feed-index rows
Persisted ==
    /\ fanouts[1].pc = "returned" /\ fanouts[1].err = ""
    /\ fanouts[1].postID = FannedOut
    /\ \A f \in fanouts[1].followerIDs : EntriesOf(feedIdx, f, FannedOut) # {}

\* the user has no cached set, or the rows last stored in it were built from a
\* post store that held the post
Converged(u, p) == origin[u] = Nil \/ p \in origin[u][1]

\* C26: once a fan-out has stored its rows for a post, a follower's cached set
\* comes to be, and from then on stays, absent or filled from a post store
\* that already held the post.
C26_CacheConverges == Persisted ~> [](Converged("A", FannedOut))

\* after the fan-out and its invalidations, the follower's set holds what a
\* build older than the post has written back
C26_Witness ==
    /\ Persisted
    /\ fanouts[1].inv["A"] = "ok"
    /\ DOMAIN cache["A"] # {}
    /\ ~Converged("A", FannedOut)

\* C27: a FanOutPost that finds no follower returns success at once: it makes
\* no bulk insert, adds no feed-index row, starts no invalidation and leaves
\* the cache alone; and it stays that way.
C27_NoFollowersNoEffect ==
    /\ [][\A t \in Calls :
             (/\ fanouts[t].pc = "idle" /\ fanouts'[t].pc # "idle"
              /\ fanouts'[t].err = ""
              /\ GetFollowerIDs(fanouts'[t].authorID) = {})
             => /\ fanouts'[t].pc = "returned"
                /\ feedIdx' = feedIdx /\ cache' = cache
                /\ \A u \in Users : fanouts'[t].inv[u] = "none"]_vars
    /\ [](\A t \in Calls :
             (fanouts[t].pc = "returned" /\ fanouts[t].err = ""
              /\ fanouts[t].followerIDs = {})
             => /\ {row \in feedIdx : row.id.call = t} = {}
                /\ ~Started(t)
                /\ ~fanouts[t].fault /\ ~fanouts[t].conflict)

\* a fan-out for an author whose followers have all left returned success
\* with nothing done, beside another that stored its rows
C27_Witness ==
    \E t, q \in Calls :
        /\ fanouts[t].pc = "returned" /\ fanouts[t].err = ""
        /\ fanouts[t].authorID = "B" /\ fanouts[t].followerIDs = {}
        /\ ~Started(t) /\ {row \in feedIdx : row.id.call = t} = {}
        /\ fanouts[q].pc = "returned" /\ fanouts[q].followerIDs # {}
        /\ {row \in feedIdx : row.id.call = q} # {}

\* the job makes a run in this step
JobTurn == cleanups'.runs = cleanups.runs + 1

\* C28: the job makes one run for each tick it takes and none without a tick,
\* so a failed run is not repeated before the next tick; a failed run changes
\* nothing but the job's own record, so reads and fan-outs go on as before;
\* and a tick that comes after a failed run is followed by another run.
C28_CleanupFailureNotFatal ==
    /\ [][/\ JobTurn => (cleanups.due = 1 /\ cleanups'.due = 0)
          /\ (JobTurn /\ cleanups'.failed)
             => UNCHANGED <<now, posts, follows, cache, reads, wbs, last, fanVars,
                            keyVars>>]_vars
    /\ (cleanups.failed /\ cleanups.due = 1) ~> (cleanups.due = 0)

\* after a failed run and the next tick, a read made that day has returned
\* posts and a fan-out has stored its rows, while the job is due to run again
C28_Witness ==
    /\ cleanups.failed /\ cleanups.due = 1
    /\ \E r \in Slots :
          /\ Done(r) /\ reads[r].code = "OK" /\ reads[r].day = now
          /\ Len(reads[r].page.Edges) > 0
    /\ \E row \in feedIdx : row.created_at = now

\* C29: the likes and comments counts of a post are never negative, whatever
\* the order of increments and decrements, and a decrement of a count that is
\* zero succeeds and leaves it zero.
C29_CountsNonNegative ==
    /\ [](counters.likes_count >= 0 /\ counters.comments_count >= 0)
    /\ [][/\ (counters'.ops # counters.ops /\ counters'.op = "DecrementLikesCount"
              /\ counters.likes_count = 0)
             => (counters'.likes_count = 0 /\ counters'.err = "")
          /\ (counters'.ops # counters.ops /\ counters'.op = "DecrementCommentsCount"
              /\ counters.comments_count = 0)
             => (counters'.comments_count = 0 /\ counters'.err = "")]_vars

\* a count raised once and lowered twice is zero, the last decrement having
\* met it at zero
C29_Witness ==
    /\ counters.ops = 3 /\ counters.op = "DecrementLikesCount"
    /\ counters.likes_count = 0 /\ counters.err = ""
    /\ counters.comments_count = 1

\* C30: a feed read whose user id is no UUID ends in the handler, in the step
\* that takes it, with the status InvalidArgument: the repository is never
\* entered (no cache lookup, no build, no rows), no write-back is started, the
\* like lookup is not made whatever the database would answer, and the step
\* changes nothing but the request itself.
Rejected(rd) ==
    /\ rd.pc = "done" /\ rd.code = "InvalidArgument" /\ rd.err = "invalid user_id"
    /\ rd.path = "" /\ rd.cacheErr = "" /\ rd.ids = <<>> /\ rd.rows = <<>>
    /\ rd.page = NoPage /\ rd.store = NoStore
    /\ \A liked \in SUBSET (1..MaxPosts), dbFails \in BOOLEAN :
          LET answered == HandlerResponse(rd, liked, dbFails)
          IN  answered.likeErr = "" /\ answered.isLiked = <<>>

C30_InvalidUserIdRejected ==
    /\ [](/\ \A r \in Slots :
              (reads[r].pc # "idle" /\ reads[r].user \notin Users)
                  => Rejected(reads[r])
          /\ \A w \in wbs : w.user \in Users)
    /\ [][\A r \in Slots :
            (reads[r].pc = "idle" /\ reads'[r].pc # "idle"
                /\ reads'[r].user \notin Users)
            => /\ Rejected(reads'[r])
               /\ UNCHANGED <<now, posts, follows, cache, wbs, last, fanVars,
                              sideVars>>
               /\ \A q \in Slots \ {r} : reads'[q] = reads[q]]_vars

C30_Witness ==
    \E r \in Slots :
        /\ reads[r].user = BadUserId /\ Rejected(reads[r])
        /\ reads[r].after # Nil
        /\ DOMAIN posts \cap DOMAIN cache["A"] # {}

\* C31: a read answered by the fallback build for a cursor that decodes to an
\* offset k > 0 returns the posts at positions k, k+1, ... of the user's ranked
\* feed (at most limit of them), not the posts from position 0 again.
PageFrom(feed, k, limit) ==
    IF k >= Len(feed) THEN <<>>
    ELSE SubSeq(feed, k + 1, IF k + limit < Len(feed) THEN k + limit ELSE Len(feed))

C31_BuildHonoursOffset ==
    \A r \in Slots :
        LET rd == reads[r]
        IN  (Done(r) /\ rd.code = "OK" /\ rd.path = "build" /\ rd.offset > 0)
            => \E feed \in RankedFeeds(rd.user, rd.store, rd.day) :
                  [i \in DOMAIN rd.page.Edges |-> rd.page.Edges[i].Node.id]
                      = PageFrom(feed, rd.offset, rd.limit)

\* C32: the page of every answered read has at most limit edges, which are the
\* first rows the lookup for limit + 1 items produced; hasNextPage is true
\* exactly when that lookup produced more than limit rows; hasPreviousPage is
\* true exactly when the decoded offset is above 0; the i-th edge (from 0)
\* carries the cursor that encodes offset + i; startCursor and endCursor are
\* the cursors of the first and the last edge, and both are absent when the
\* page is empty.
Assembled(rd) ==
    LET edges == rd.page.Edges
        n == Len(edges)
    IN  /\ n <= rd.limit /\ Len(rd.rows) <= rd.limit + 1
        /\ n = (IF Len(rd.rows) > rd.limit THEN rd.limit ELSE Len(rd.rows))
        /\ rd.page.HasNextPage <=> Len(rd.rows) > rd.limit
        /\ rd.page.HasPreviousPage <=> rd.offset > 0
        /\ \A i \in 1..n :
              /\ edges[i].Node = rd.rows[i]
              /\ edges[i].Cursor = encodeCursor(rd.offset + (i - 1))
              /\ decodeCursor(edges[i].Cursor) = [err |-> FALSE, offset |-> rd.offset + (i - 1)]
        /\ IF n = 0
           THEN rd.page.StartCursor = Nil /\ rd.page.EndCursor = Nil
           ELSE /\ rd.page.StartCursor = Some(edges[1].Cursor)
                /\ rd.page.EndCursor = Some(edges[n].Cursor)

C32_PageAssembly ==
    \A r \in Slots : (Done(r) /\ reads[r].code = "OK") => Assembled(reads[r])

C32_Witness ==
    \E r \in Slots :
        /\ Done(r) /\ reads[r].code = "OK" /\ reads[r].path = "cache"
        /\ reads[r].offset > 0 /\ reads[r].page.HasNextPage
        /\ Len(reads[r].page.Edges) = reads[r].limit

\* C33: over an unchanged post store, whatever reads came before, a first page
\* served from the cache has as many posts and the same hasNextPage as the
\* first page the build would give for the same limit.
FreshPages(rd) ==
    {buildPostConnection(rows, rd.limit, 0) :
        rows \in BuildQuery(rd.user, rd.limit + 1, posts, now)}

C33_CachePageNotShorter ==
    \A r \in Slots :
        LET rd == reads[r]
        IN  (Done(r) /\ rd.code = "OK" /\ rd.path = "cache" /\ rd.after = Nil)
            => \A fresh \in FreshPages(rd) :
                  /\ Len(rd.page.Edges) = Len(fresh.Edges)
                  /\ rd.page.HasNextPage = fresh.HasNextPage

\* C34: once the invalidation a fan-out of post P made of a follower's cached
\* set has completed, the set is never filled from a build computed when P was
\* not yet in the post store.
C34_NoStaleRepopulation ==
    \A t \in Calls, u \in CacheReaders :
        (fanouts[t].inv[u] = "ok" /\ origin[u] # Nil)
            => fanouts[t].postID \in origin[u][1]

\* C35: the invalidation task of a fan-out finishes.  Once the bulk insert has
\* succeeded, every follower's invalidation is eventually attempted, no slot
\* of the semaphore stays taken and nobody waits for one; each follower goes
\* through waiting, running and its outcome in that order and only once.
InvalidationBegun(t) ==
    /\ fanouts[t].pc = "returned" /\ fanouts[t].err = ""
    /\ fanouts[t].followerIDs # {}

InvalidationFinished(t) ==
    /\ Running(t) = {}
    /\ \A u \in Users :
          fanouts[t].inv[u] = (IF u \in fanouts[t].followerIDs
                               THEN fanouts[t].inv[u] ELSE "none")
    /\ \A u \in fanouts[t].followerIDs : fanouts[t].inv[u] \in {"ok", "failed"}

OneAttempt(t, u) ==
    \/ fanouts'[t].inv[u] = fanouts[t].inv[u]
    \/ fanouts[t].inv[u] = "none" /\ fanouts'[t].inv[u] = "waiting"
           /\ ~InvalidationBegun(t) /\ InvalidationBegun(t)'
    \/ fanouts[t].inv[u] = "waiting" /\ fanouts'[t].inv[u] = "running"
    \/ fanouts[t].inv[u] = "running" /\ fanouts'[t].inv[u] \in {"ok", "failed"}

PageIds(rd) == {rd.page.Edges[i].Node.id : i \in DOMAIN rd.page.Edges}

C36_OnlyStoredPosts ==
    [][\A r \in Slots :
          (~Done(r) /\ Done(r)' /\ reads'[r].code = "OK")
          => /\ PageIds(reads'[r]) \subseteq DOMAIN posts'
             /\ \A i \in DOMAIN reads'[r].page.Edges :
                   LET node == reads'[r].page.Edges[i].Node
                   IN  node = PostRow(posts', node.id)]_vars

C36_Witness ==
    \E r \in Slots :
        /\ Done(r) /\ reads[r].code = "OK" /\ reads[r].path = "cache"
        /\ PageIds(reads[r]) # {}
        /\ \E p \in Range(reads[r].ids) : p \notin DOMAIN posts
        /\ PageIds(reads[r]) \subseteq DOMAIN posts

\* C37: a refresh ends at the first call that fails, with the error of that
\* call.  A failed invalidation leaves the cache as it was and nothing is
\* built or stored; a failed build leaves the set deleted and nothing is
\* stored; a failed store is reported.  A refresh that ends elsewhere ends
\* without error, from the store.
StepError(pc) ==
    CASE pc = "idle" -> "failed to invalidate feed cache"
      [] pc = "build" -> "failed to build feed"
      [] pc = "cache" -> "failed to cache feed"
      [] OTHER -> ""

C37_RefreshStopsAtFirstFailure ==
    [][\A t \in RefreshCalls :
          (refreshes'[t] # refreshes[t])
          => LET before == refreshes[t]
                 after == refreshes'[t]
             IN  /\ before.pc # "returned"
                 /\ after.err \in {"", StepError(before.pc)}
                 /\ after.err # "" =>
                       /\ after.pc = "returned"
                       /\ after.rows = before.rows
                       /\ before.pc = "idle" =>
                              after.rows = <<>> /\ cache' = cache /\ ttl' = ttl
                       /\ before.pc = "build" =>
                              /\ after.rows = <<>> /\ cache' = cache /\ ttl' = ttl
                              /\ cache'[after.user] = EmptyZSet
                 /\ (after.err = "" /\ after.pc = "returned") => before.pc = "cache"]_vars

C37_Witness ==
    /\ refreshes[1].pc = "returned" /\ refreshes[1].err = ""
    /\ Len(refreshes[1].rows) = 2
    /\ refreshes[2].pc = "returned" /\ refreshes[2].err = "failed to build feed"
    /\ cache["A"] = EmptyZSet /\ now = 0

\* C38: paging through a user's unchanging posts by the end cursor, until a
\* page says there is no next page, returns every post exactly once.
C38_KeysetExact ==
    (calc.fn = "GetUserPosts" /\ calc.stage = "done")
        => /\ Range(calc.seen) = DOMAIN calc.table
           /\ Len(calc.seen) = Cardinality(DOMAIN calc.table)

\* C39: no post-created event is published for a post whose insert fails:
\* at no time is there an event for a post whose insert has failed.
C39_EventOnlyForStoredPost ==
    calc.fn = "CreatePost" => calc.events \cap calc.failed = {}

\* C40: a LikePost for a post the user already likes returns success and
\* leaves exactly one like row for the pair; an UnlikePost for a post the
\* user does not like returns success with "Like already removed" and leaves
\* the likes as they were (the database answering in both cases).
Answered(op) ==
    /\ calc'.calls # calc.calls /\ calc'.op = op /\ ~calc'.dbFails
    /\ LikeRequestError(calc'.post, calc'.user) = ""

C40_LikeUnlikeIdempotent ==
    [][/\ (Answered("LikePost") /\ Liked(calc.rows, calc'.post, calc'.user) # {})
          => /\ calc'.code = "OK" /\ calc'.success
             /\ calc'.rows = calc.rows
             /\ Cardinality(Liked(calc'.rows, calc'.post, calc'.user)) = 1
       /\ (Answered("UnlikePost") /\ Liked(calc.rows, calc'.post, calc'.user) = {})
          => /\ calc'.code = "OK" /\ calc'.success
             /\ calc'.msg = "Like already removed"
             /\ calc'.rows = calc.rows]_vars
====
